---- MODULE Spec2Model ----
(***************************************************************************)
(* Scheduling engine of the hospital assistant: SchedulerAgent             *)
(* (agents/scheduler/scheduler_agent.py) over RAGService                   *)
(* (services/rag/rag_service.py) and the SQLAlchemy store                  *)
(* (models/database.py).                                                   *)
(*                                                                         *)
(* Requests run concurrently, each with its own database session and its   *)
(* own SchedulerAgent (api/routers/scheduler_router.py builds one per      *)
(* request).  A request is a sequence of store calls; a step of the model  *)
(* is one store call (or several reads of one snapshot) of one request.    *)
(* Text is a sequence of characters, a date is a day number whose Python   *)
(* weekday is (date % 7), a time of day is a number of seconds.            *)
(***************************************************************************)
EXTENDS Integers, Sequences, FiniteSets, TLC

(* ------------------------------ bounds ------------------------------- *)

\* number of request tasks that can be in flight at once
NReq == 2
\* number of operations issued in one behaviour
MaxOps == 2

(* ----------------------- program constants --------------------------- *)

\* Optional[...] = None
None == 0 - 1

\* timedelta(minutes=30), in seconds
SlotStep == 1800
\* range(14)
SearchDays == 14
\* recommended_doctors[:5]
TopDoctors == 5
\* sorted(...)[:3]
TopSpecialties == 3
\* abs(...) <= 7200
PreferredWindow == 7200
\* recommended_doctors[:3], slots[:5], available_slots[:10], days=14
AltDoctors == 3
AltSlotsPerDoctor == 5
AltSlotsTotal == 10
AltDays == 14
\* default of get_doctor_availability(days=7)
DefaultDays == 7

T(h, m) == h * 3600 + m * 60

(* ------------------------------- text -------------------------------- *)

UpperChars == <<"A","B","C","D","E","F","G","H","I","J","K","L","M","N","O","P","Q","R","S","T","U","V","W","X","Y","Z">>
LowerChars == <<"a","b","c","d","e","f","g","h","i","j","k","l","m","n","o","p","q","r","s","t","u","v","w","x","y","z">>

\* str.lower() on one character
LowerChar(c) ==
  IF \E i \in 1..Len(UpperChars) : UpperChars[i] = c
  THEN LowerChars[CHOOSE i \in 1..Len(UpperChars) : UpperChars[i] = c]
  ELSE c

\* str.lower()
Lower(s) == [i \in 1..Len(s) |-> LowerChar(s[i])]

\* Python's  kw in txt  on strings: kw is a contiguous substring of txt
Contains(kw, txt) ==
  \E i \in 0..(Len(txt) - Len(kw)) : SubSeq(txt, i + 1, i + Len(kw)) = kw

Take(s, n) == SubSeq(s, 1, IF Len(s) < n THEN Len(s) ELSE n)

\* the characters of the symptom texts in use (the state holds the string)
Chars ==
  ("Chest pain" :> <<"C","h","e","s","t"," ","p","a","i","n">>)
  @@ ("severe chest pain" :> <<"s","e","v","e","r","e"," ","c","h","e","s","t"," ","p","a","i","n">>)
  @@ ("unconscious" :> <<"u","n","c","o","n","s","c","i","o","u","s">>)
  @@ ("routine checkup" :> <<"r","o","u","t","i","n","e"," ","c","h","e","c","k","u","p">>)
  @@ ("sore knee" :> <<"s","o","r","e"," ","k","n","e","e">>)
  @@ ("ache" :> <<"a","c","h","e">>)
  @@ ("chest pain and flu" :> <<"c","h","e","s","t"," ","p","a","i","n"," ","a","n","d"," ","f","l","u">>)
  @@ ("" :> <<>>)

Texts == DOMAIN Chars

(* ------------------------- urgency classifier ------------------------ *)

urgent_keywords ==
  << <<"s","e","v","e","r","e"," ","c","h","e","s","t"," ","p","a","i","n">>,
     <<"h","e","a","r","t"," ","a","t","t","a","c","k">>,
     <<"s","t","r","o","k","e">>,
     <<"u","n","c","o","n","s","c","i","o","u","s">>,
     <<"s","e","v","e","r","e"," ","b","l","e","e","d","i","n","g">>,
     <<"b","r","o","k","e","n"," ","b","o","n","e">>,
     <<"h","i","g","h"," ","f","e","v","e","r">>,
     <<"d","i","f","f","i","c","u","l","t","y"," ","b","r","e","a","t","h","i","n","g">>,
     <<"p","o","i","s","o","n","i","n","g">>,
     <<"s","e","v","e","r","e"," ","i","n","j","u","r","y">>,
     <<"e","m","e","r","g","e","n","c","y">>,
     <<"u","r","g","e","n","t">> >>

medium_keywords ==
  << <<"c","h","e","s","t"," ","p","a","i","n">>,
     <<"s","e","v","e","r","e"," ","h","e","a","d","a","c","h","e">>,
     <<"h","i","g","h"," ","b","l","o","o","d"," ","p","r","e","s","s","u","r","e">>,
     <<"p","e","r","s","i","s","t","e","n","t"," ","f","e","v","e","r">>,
     <<"s","e","v","e","r","e"," ","p","a","i","n">>,
     <<"k","i","d","n","e","y"," ","s","t","o","n","e">> >>

\* the keywords of kws that occur in txt, in list order
MatchedKeywords(kws, txt) == SelectSeq(kws, LAMBDA k : Contains(k, txt))

\* a classifier whose medium loop runs whatever the urgent loop found
UrgencyMediumOverrides(symptoms) ==
  LET symptoms_lower == Lower(symptoms)
      high == MatchedKeywords(urgent_keywords, symptoms_lower)
      med  == MatchedKeywords(medium_keywords, symptoms_lower)
  IN  IF med # <<>>
      THEN [urgency_level |-> "medium", matched_keywords |-> high \o med]
      ELSE IF high # <<>>
           THEN [urgency_level |-> "high", matched_keywords |-> high]
           ELSE [urgency_level |-> "low", matched_keywords |-> <<>>]

get_urgent_symptoms_check(symptoms) ==
  LET symptoms_lower == Lower(symptoms)
      high == MatchedKeywords(urgent_keywords, symptoms_lower)
      med  == MatchedKeywords(medium_keywords, symptoms_lower)
  IN  IF high # <<>>
      THEN [urgency_level |-> "high", matched_keywords |-> high]
      ELSE IF med # <<>>
           THEN [urgency_level |-> "medium", matched_keywords |-> med]
           ELSE [urgency_level |-> "low", matched_keywords |-> <<>>]

(* --------------------------- static tables --------------------------- *)

Specialties ==
  << [id |-> 1, name |-> "Cardiology"],
     [id |-> 2, name |-> "Gastroenterology"],
     [id |-> 3, name |-> "General Medicine"] >>

Doctors ==
  << [id |-> 1, name |-> "Dr. Rahman", specialty |-> "Cardiology"],
     [id |-> 2, name |-> "Dr. Ayesha", specialty |-> "Gastroenterology"],
     [id |-> 3, name |-> "Dr. Karim",  specialty |-> "General Medicine"] >>

DoctorIds == {Doctors[i].id : i \in 1..Len(Doctors)}

CardiologyKeywords ==
  << <<"c","h","e","s","t"," ","p","a","i","n">>,
     <<"h","e","a","r","t">>,
     <<"c","a","r","d","i","a","c">>,
     <<"p","a","l","p","i","t","a","t","i","o","n">>,
     <<"c","h","e","s","t"," ","t","i","g","h","t","n","e","s","s">> >>

GastroKeywords ==
  << <<"s","t","o","m","a","c","h"," ","p","a","i","n">>,
     <<"d","i","g","e","s","t","i","o","n">>,
     <<"g","a","s","t","r","i","c">>,
     <<"s","t","o","m","a","c","h">>,
     <<"a","b","d","o","m","i","n","a","l">>,
     <<"n","a","u","s","e","a">>,
     <<"v","o","m","i","t","i","n","g">> >>

GeneralKeywords ==
  << <<"f","e","v","e","r">>,
     <<"h","e","a","d","a","c","h","e">>,
     <<"g","e","n","e","r","a","l">>,
     <<"c","h","e","c","k","u","p">>,
     <<"r","o","u","t","i","n","e">>,
     <<"c","o","l","d">>,
     <<"f","l","u">> >>

SymptomMappings ==
  << [id |-> 1, symptom_keywords |-> CardiologyKeywords, specialty_id |-> 1, priority |-> 3],
     [id |-> 2, symptom_keywords |-> GastroKeywords,     specialty_id |-> 2, priority |-> 2],
     [id |-> 3, symptom_keywords |-> GeneralKeywords,    specialty_id |-> 3, priority |-> 1] >>

\* doctor_schedules rows: day_of_week 0 = Sunday .. 6 = Saturday
Rule(doc, dow, st, en) ==
  [doctor_id |-> doc, day_of_week |-> dow, start_time |-> st, end_time |-> en,
   is_active |-> TRUE]

Schedules ==
  << Rule(1, 1, T(18, 0), T(20, 0)), Rule(1, 2, T(18, 0), T(20, 0)),
     Rule(1, 3, T(18, 0), T(20, 0)), Rule(1, 4, T(18, 0), T(20, 0)),
     Rule(2, 6, T(16, 0), T(18, 0)), Rule(2, 0, T(16, 0), T(18, 0)),
     Rule(2, 1, T(16, 0), T(18, 0)), Rule(2, 2, T(16, 0), T(18, 0)),
     Rule(3, 0, T(10, 0), T(14, 0)), Rule(3, 1, T(10, 0), T(14, 0)),
     Rule(3, 2, T(10, 0), T(14, 0)), Rule(3, 3, T(10, 0), T(14, 0)),
     Rule(3, 4, T(10, 0), T(14, 0)), Rule(3, 5, T(10, 0), T(14, 0)),
     Rule(3, 6, T(10, 0), T(14, 0)) >>


(* -------------------------- symptom matcher -------------------------- *)

\* score of one symptom_mappings row: priority once per keyword that occurs
MappingScore(mapping, symptoms_lower) ==
  mapping.priority *
    Len(SelectSeq(mapping.symptom_keywords,
                  LAMBDA k : Contains(Lower(k), symptoms_lower)))

\* specialty_scores after the first n mappings, as (specialty_id, score)
\* pairs in dict insertion order
RECURSIVE SpecialtyScores(_, _, _)
SpecialtyScores(mappings, symptoms_lower, n) ==
  IF n = 0 THEN <<>>
  ELSE LET prev  == SpecialtyScores(mappings, symptoms_lower, n - 1)
           m     == mappings[n]
           score == MappingScore(m, symptoms_lower)
           known == \E i \in 1..Len(prev) : prev[i][1] = m.specialty_id
       IN  IF score > 0
           THEN IF known
                THEN [i \in 1..Len(prev) |->
                        IF prev[i][1] = m.specialty_id
                        THEN <<prev[i][1], prev[i][2] + score>> ELSE prev[i]]
                ELSE Append(prev, <<m.specialty_id, score>>)
           ELSE prev

\* the specialties left in the order the dict holds them
InsertionOrder(items) == items

\* sorted(items, key=score, reverse=True): stable, equal scores keep their order
RECURSIVE SortedByScoreDesc(_)
SortedByScoreDesc(items) ==
  IF items = <<>> THEN <<>>
  ELSE LET n    == Len(items)
           x    == items[n]
           init == SortedByScoreDesc(SubSeq(items, 1, n - 1))
           k    == Cardinality({i \in 1..Len(init) : init[i][2] >= x[2]})
       IN  SubSeq(init, 1, k) \o <<x>> \o SubSeq(init, k + 1, Len(init))

\* the doctors of one selected specialty, annotated with its score
DoctorsOfSpecialty(specialty_id, score) ==
  LET found == SelectSeq(Specialties, LAMBDA sp : sp.id = specialty_id)
  IN  IF found = <<>> THEN <<>>
      ELSE LET docs == SelectSeq(Doctors, LAMBDA d : d.specialty = found[1].name)
           IN  [i \in 1..Len(docs) |->
                  [id |-> docs[i].id, name |-> docs[i].name,
                   specialty |-> docs[i].specialty, match_score |-> score]]

RECURSIVE DoctorsOfSpecialties(_)
DoctorsOfSpecialties(sorted_specialties) ==
  IF sorted_specialties = <<>> THEN <<>>
  ELSE DoctorsOfSpecialty(sorted_specialties[1][1], sorted_specialties[1][2])
         \o DoctorsOfSpecialties(Tail(sorted_specialties))

\* search_doctors_by_symptoms over the rows query(SymptomMapping).all() returned
RankedDoctors(mappings, symptoms) ==
  LET symptoms_lower     == Lower(symptoms)
      specialty_scores   == SpecialtyScores(mappings, symptoms_lower, Len(mappings))
      sorted_specialties == Take(SortedByScoreDesc(specialty_scores), TopSpecialties)
  IN  DoctorsOfSpecialties(sorted_specialties)

\* the matcher over the table insert_demo_data.py loads
search_doctors_by_symptoms(symptoms) == RankedDoctors(SymptomMappings, symptoms)

(* ----------------------- availability generator ---------------------- *)

\* date.weekday(): Monday = 0
PyWeekday(d) == d % 7

\* strftime('%H:%M') and strptime(..., '%H:%M'): seconds are dropped
FormatHM(t) == <<t \div 3600, (t % 3600) \div 60>>
ParseHM(hm) == hm[1] * 3600 + hm[2] * 60

\* a query that looks at the status of the first row of the slot only: what
\* the status filter of the Appointment query rules out
ExistingAppointmentFirstRow(appts, doctor_id, slot_date, slot_time) ==
  LET rows == SelectSeq(appts, LAMBDA a :
                /\ a.doctor_id = doctor_id
                /\ a.appointment_date = slot_date
                /\ a.appointment_time = slot_time)
  IN  rows # <<>> /\ rows[1].status = "scheduled"

\* a query without the status filter: cancelled rows keep their slot
ExistingAppointmentAnyStatus(appts, doctor_id, slot_date, slot_time) ==
  \E i \in 1..Len(appts) :
     /\ appts[i].doctor_id = doctor_id
     /\ appts[i].appointment_date = slot_date
     /\ appts[i].appointment_time = slot_time

\* the Appointment query of both availability checks
ExistingAppointment(appts, doctor_id, slot_date, slot_time) ==
  \E i \in 1..Len(appts) :
     /\ appts[i].doctor_id = doctor_id
     /\ appts[i].appointment_date = slot_date
     /\ appts[i].appointment_time = slot_time
     /\ appts[i].status = "scheduled"

\* the TimeSlot query of both availability checks
BlockedSlot(slots, doctor_id, slot_date, slot_time) ==
  \E b \in slots :
     /\ b.doctor_id = doctor_id
     /\ b.slot_date = slot_date
     /\ b.slot_time = slot_time
     /\ b.is_blocked

\* a rule lookup that does not look at is_active
DayScheduleAnyRule(schedules, doctor_id, day_of_week) ==
  Take(SelectSeq(schedules,
                 LAMBDA r : /\ r.doctor_id = doctor_id
                            /\ r.day_of_week = day_of_week), 1)

\* the first active rule of the doctor for a weekday (0 = Sunday), or <<>>
DaySchedule(schedules, doctor_id, day_of_week) ==
  Take(SelectSeq(schedules,
                 LAMBDA r : /\ r.doctor_id = doctor_id
                            /\ r.day_of_week = day_of_week
                            /\ r.is_active), 1)

\* a slot loop that also yields the slot starting at end_time
RECURSIVE SlotTimesInclusive(_, _)
SlotTimesInclusive(current_time, end_time) ==
  IF current_time <= end_time
  THEN <<current_time>> \o SlotTimesInclusive(current_time + SlotStep, end_time)
  ELSE <<>>

\* while current_time < end_time: ... current_time += 30 minutes
RECURSIVE SlotTimes(_, _)
SlotTimes(current_time, end_time) ==
  IF current_time < end_time
  THEN <<current_time>> \o SlotTimes(current_time + SlotStep, end_time)
  ELSE <<>>

\* the candidate times of a doctor on a weekday: the slots of the day's rule
DayTimes(schedules, doctor_id, day_of_week) ==
  LET day_schedule == DaySchedule(schedules, doctor_id, day_of_week)
  IN  IF day_schedule = <<>> THEN <<>>
      ELSE SlotTimes(day_schedule[1].start_time, day_schedule[1].end_time)

\* the schedule rows do not change: the candidate times, computed once
DayTimesOf ==
  [doctor_id \in DoctorIds |-> [dow \in 0..6 |-> DayTimes(Schedules, doctor_id, dow)]]

\* the candidate times under a schedule table
TimesTable(schedules) ==
  IF schedules = Schedules THEN DayTimesOf
  ELSE [doctor_id \in DoctorIds |-> [dow \in 0..6 |-> DayTimes(schedules, doctor_id, dow)]]

DaySlots(times_of, appts, slots, doctor_id, current_date) ==
  LET \* Python weekday (Monday = 0) to the table's format (Sunday = 0)
      day_of_week == (PyWeekday(current_date) + 1) % 7
      times == times_of[doctor_id][day_of_week]
  IN  IF times = <<>> THEN <<>>
      ELSE LET free  == SelectSeq(times, LAMBDA t :
                          /\ ~ExistingAppointment(appts, doctor_id, current_date, t)
                          /\ ~BlockedSlot(slots, doctor_id, current_date, t))
           IN  [i \in 1..Len(free) |->
                  [date |-> current_date, time |-> FormatHM(free[i]),
                   doctor_id |-> doctor_id]]

\* a date loop that stops before end_date
RECURSIVE DateLoopExclusive(_, _, _, _, _, _)
DateLoopExclusive(times_of, appts, slots, doctor_id, current_date, end_date) ==
  IF current_date < end_date
  THEN DaySlots(times_of, appts, slots, doctor_id, current_date)
         \o DateLoopExclusive(times_of, appts, slots, doctor_id, current_date + 1, end_date)
  ELSE <<>>

\* a date loop that puts the slots of later dates first
RECURSIVE DateLoopDescending(_, _, _, _, _, _)
DateLoopDescending(times_of, appts, slots, doctor_id, current_date, end_date) ==
  IF current_date <= end_date
  THEN DateLoopDescending(times_of, appts, slots, doctor_id, current_date + 1, end_date)
         \o DaySlots(times_of, appts, slots, doctor_id, current_date)
  ELSE <<>>

\* while current_date <= end_date
RECURSIVE DateLoop(_, _, _, _, _, _)
DateLoop(times_of, appts, slots, doctor_id, current_date, end_date) ==
  IF current_date <= end_date
  THEN DaySlots(times_of, appts, slots, doctor_id, current_date)
         \o DateLoop(times_of, appts, slots, doctor_id, current_date + 1, end_date)
  ELSE <<>>

\* get_doctor_availability over the candidate times of the schedule rows
DoctorAvailability(times_of, appts, slots, now, doctor_id, start_date, days) ==
  LET start    == IF start_date = None THEN now ELSE start_date
      end_date == start + days
  IN  IF doctor_id \notin DoctorIds THEN <<>>
      ELSE DateLoop(times_of, appts, slots, doctor_id, start, end_date)

\* the generator over the schedule rows insert_demo_data.py loads
get_doctor_availability(appts, slots, now, doctor_id, start_date, days) ==
  DoctorAvailability(DayTimesOf, appts, slots, now, doctor_id, start_date, days)

(* --------------------------- slot allocator -------------------------- *)

_is_slot_still_available(appts, slots, doctor_id, slot_date, slot_time) ==
  /\ ~ExistingAppointment(appts, doctor_id, slot_date, slot_time)
  /\ ~BlockedSlot(slots, doctor_id, slot_date, slot_time)

\* datetime.combine(date, time), in seconds
Combine(d, t) == d * 86400 + t

Abs(x) == IF x < 0 THEN 0 - x ELSE x

\* the test a generated slot passes to be returned
SlotAccepted(appts, slots, slot, search_date, preferred_time) ==
  LET slot_date == slot.date
      slot_time == ParseHM(slot.time)
  IN  /\ _is_slot_still_available(appts, slots, slot.doctor_id, slot_date, slot_time)
      /\ \/ preferred_time = None
         \/ Abs(Combine(slot_date, slot_time) - Combine(search_date, preferred_time))
              <= PreferredWindow

\* the scan from (days_ahead, doctor index k) onwards; <<>> stands for None
RECURSIVE ScanFrom(_, _, _, _, _, _, _)
ScanFrom(appts, slots, docs, search_start_date, preferred_time, days_ahead, k) ==
  IF days_ahead >= SearchDays THEN <<>>
  ELSE IF k > Len(docs)
  THEN ScanFrom(appts, slots, docs, search_start_date, preferred_time, days_ahead + 1, 1)
  ELSE LET search_date == search_start_date + days_ahead
           available   == get_doctor_availability(appts, slots, None, docs[k].id,
                                                  search_date, 1)
           ok          == SelectSeq(available, LAMBDA s :
                            SlotAccepted(appts, slots, s, search_date, preferred_time))
       IN  IF ok # <<>> THEN <<ok[1]>>
           ELSE ScanFrom(appts, slots, docs, search_start_date, preferred_time,
                         days_ahead, k + 1)

\* a scan that looks at the best-ranked doctor only
FirstDoctorOnly(appts, slots, now, recommended_doctors, preferred_date, preferred_time) ==
  LET search_start_date == IF preferred_date # None THEN preferred_date ELSE now
  IN  ScanFrom(appts, slots, Take(recommended_doctors, 1),
               search_start_date, preferred_time, 0, 1)

_find_best_available_slot(appts, slots, now, recommended_doctors, preferred_date, preferred_time) ==
  LET search_start_date == IF preferred_date # None THEN preferred_date ELSE now
  IN  ScanFrom(appts, slots, Take(recommended_doctors, TopDoctors),
               search_start_date, preferred_time, 0, 1)

\* the alternatives attached to a "no immediate availability" response
RECURSIVE AlternativeSlots(_, _, _, _)
AlternativeSlots(appts, slots, now, docs) ==
  IF docs = <<>> THEN <<>>
  ELSE Take(get_doctor_availability(appts, slots, now, docs[1].id, None, AltDays),
            AltSlotsPerDoctor)
         \o AlternativeSlots(appts, slots, now, Tail(docs))

\* available_slots of the "no immediate availability" response: the
\* alternatives of recommended_doctors[:3], cut to available_slots[:10]
BookAlternatives(appts, slots, now, recommended_doctors) ==
  Take(AlternativeSlots(appts, slots, now, Take(recommended_doctors, AltDoctors)),
       AltSlotsTotal)

(* ----------------------- serial number issuer ------------------------ *)

DigitChars == <<"0","1","2","3","4","5","6","7","8","9">>

\* str(n) for n >= 0
RECURSIVE Digits(_)
Digits(n) ==
  IF n < 10 THEN <<DigitChars[n + 1]>>
  ELSE Digits(n \div 10) \o <<DigitChars[(n % 10) + 1]>>

\* f"{n:03d}"
Pad3(ds) ==
  IF Len(ds) >= 3 THEN ds
  ELSE [i \in 1..(3 - Len(ds)) |-> "0"] \o ds

\* f"XH{new_num:03d}"
FormatSerial(new_num) == <<"X", "H">> \o Pad3(Digits(new_num))

DigitValue(c) == (CHOOSE i \in 1..10 : DigitChars[i] = c) - 1

\* int(s) on a string of digits
RECURSIVE ParseInt(_)
ParseInt(ds) ==
  IF Len(ds) = 1 THEN DigitValue(ds[1])
  ELSE ParseInt(SubSeq(ds, 1, Len(ds) - 1)) * 10 + DigitValue(ds[Len(ds)])

\* int(serial_number[2:])
SerialSuffix(serial_number) == ParseInt(SubSeq(serial_number, 3, Len(serial_number)))

\* an issuer that reads the row with the lowest id
SerialAfterFirstRow(appts) ==
  IF appts # <<>>
  THEN FormatSerial(SerialSuffix(appts[1].serial_number) + 1)
  ELSE FormatSerial(1)

\* the row with the highest id is the last one: ids are issued in insert order
generate_serial_number(appts) ==
  IF appts # <<>>
  THEN FormatSerial(SerialSuffix(appts[Len(appts)].serial_number) + 1)
  ELSE FormatSerial(1)

(* ------------------------------- state ------------------------------- *)

VARIABLES
  today,         \* date.today(), fixed during a behaviour
  time_slots,    \* the time_slots table: rows with is_blocked
  patients,      \* the patients table, in id order (id = index)
  appointments,  \* the appointments table, in id order (id = index)
  req,           \* the request tasks: position, arguments, locals, result
  lock,          \* lock[a]: the task holding SchedulerAgent a's _lock, or 0
  ops,           \* operations issued so far
  avail,         \* the last getAvailability calls and their answers, newest first
  history,       \* the last get_patient_appointments call and its answer, or <<>>
  symptom_mappings,  \* the symptom_mappings table, in the order a query reads it
  doctor_schedules,  \* the doctor_schedules table, in the order Doctor.schedules loads it
  analysis       \* the last analyze-symptoms call and its answer, or <<>>

vars == <<today, time_slots, patients, appointments, req, lock, ops, avail, history,
          symptom_mappings, doctor_schedules, analysis>>

Req == 1..NReq


\* SchedulerAgent(db) is built inside each route call: one agent, and so one
\* _lock, per request
AgentOf(r) == r

Phones == {"+8801999999999"}
Names == {"Test Patient"}
Reasons == {"System test cancellation"}

IdleReq ==
  [pc |-> "idle", op |-> "none",
   patient_name |-> "", patient_phone |-> "", symptoms |-> "",
   preferred_date |-> None, preferred_time |-> None,
   appointment_id |-> 0, reason |-> "", new_date |-> None, new_time |-> None,
   patient_id |-> 0, best_slot |-> <<>>, serial_number |-> <<>>, loaded |-> <<>>,
   commits |-> 0, result |-> "none", available_slots |-> <<>>]

\* the rows insert_demo_data.py leaves in the store
DemoPatients ==
  << [id |-> 1, name |-> "John Smith", phone |-> "+8801234567890"],
     [id |-> 2, name |-> "Jane Doe",   phone |-> "+8801234567891"] >>

DemoAppointments(now) ==
  << [id |-> 1, patient_id |-> 1, doctor_id |-> 1,
      appointment_date |-> now + 1, appointment_time |-> T(18, 30),
      status |-> "scheduled", symptoms |-> "Chest pain and palpitations", notes |-> <<>>,
      serial_number |-> FormatSerial(1), booking_channel |-> "chat"],
     [id |-> 2, patient_id |-> 2, doctor_id |-> 3,
      appointment_date |-> now, appointment_time |-> T(11, 0),
      status |-> "scheduled", symptoms |-> "General health checkup", notes |-> <<>>,
      serial_number |-> FormatSerial(2), booking_channel |-> "voice"] >>

\* one blocked slot of doctor 1
BlockedDemo(now) ==
  { [doctor_id |-> 1, slot_date |-> now + 1, slot_time |-> T(18, 0),
     is_blocked |-> TRUE] }

\* the stores a behaviour starts from: <<today, time_slots, patients,
\* appointments>>.  An empty store on a Monday; the seeded store on a Monday
\* with a blocked slot; the seeded store on a Tuesday
StartStores ==
  { <<0, {}, <<>>, <<>> >>,
    <<0, BlockedDemo(0), DemoPatients, DemoAppointments(0)>>,
    <<1, {}, DemoPatients, DemoAppointments(1)>> }

Init ==
  /\ \E st \in StartStores :
        /\ today = st[1]
        /\ time_slots = st[2]
        /\ patients = st[3]
        /\ appointments = st[4]
  /\ req = [r \in Req |-> IdleReq]
  /\ lock = [a \in Req |-> 0]
  /\ ops = 0
  /\ avail = <<>>
  /\ history = <<>>
  /\ symptom_mappings = SymptomMappings
  /\ analysis = <<>>
  /\ doctor_schedules = Schedules

(* ------------------------------ store -------------------------------- *)

\* a phone column without its unique index, looked up by a query that
\* never finds a row
PhoneNeverTaken(pats, phone) == FALSE

\* patients.phone is unique: the INSERT's commit raises IntegrityError
PhoneTaken(pats, phone) == \E i \in 1..Len(pats) : pats[i].phone = phone

\* a serial_number column without its unique index
SerialNeverTaken(appts, serial_number) == FALSE

\* appointments.serial_number is unique: the INSERT's commit raises IntegrityError
SerialTaken(appts, serial_number) ==
  \E i \in 1..Len(appts) : appts[i].serial_number = serial_number

\* query(Patient).filter(Patient.phone == phone).first(): its id, or 0
PatientByPhone(pats, phone) ==
  IF PhoneTaken(pats, phone)
  THEN (CHOOSE i \in 1..Len(pats) : pats[i].phone = phone
          /\ \A j \in 1..(i - 1) : pats[j].phone # phone)
  ELSE 0

\* the lookup without its status filter
ScheduledByIdAnyStatus(appts, appointment_id) ==
  IF appointment_id \in 1..Len(appts) THEN <<appts[appointment_id]>> ELSE <<>>

\* query(Appointment).filter(id == appointment_id, status == "scheduled").first()
ScheduledById(appts, appointment_id) ==
  IF /\ appointment_id \in 1..Len(appts)
     /\ appts[appointment_id].status = "scheduled"
  THEN <<appts[appointment_id]>>
  ELSE <<>>

\* a task whose call has returned: the call's arguments and locals are gone;
\* what stays is the operation, its outcome and how many commits it made (and,
\* for a call refused as not found, the id it was refused for)
Returned(q, outcome) ==
  [IdleReq EXCEPT !.op = q.op, !.commits = q.commits, !.result = outcome,
                  !.available_slots = q.available_slots]

\* tasks are interchangeable: a new call runs on the first free task
FirstIdle(r) == req[r].pc = "idle" /\ \A q \in 1..(r - 1) : req[q].pc # "idle"

(* ------------------------- bookAppointment --------------------------- *)

\* a return that leaves the lock taken
FinishHoldingLock(r, outcome) ==
  /\ req' = [req EXCEPT ![r] = Returned(req[r], outcome)]
  /\ UNCHANGED lock

\* the call returns: "with self._lock" releases the lock on every exit
Finish(r, outcome) ==
  /\ req' = [req EXCEPT ![r] = Returned(req[r], outcome)]
  /\ lock' = [lock EXCEPT ![AgentOf(r)] = 0]

\* an operation without its except clause: the exception reaches the caller
FaultPropagates(op) == "raised"

\* "except Exception as e": what an operation returns when a store call
\* inside it raised (a failure response for book, success False for cancel
\* and reschedule)
FaultOutcome(op) == "store_error"

\* book_appointment is called: the task takes its agent's lock and looks the
\* patient up by phone
Book_Begin(r, name, phone, text, pdate, ptime) ==
  /\ FirstIdle(r)
  /\ ops < MaxOps
  /\ lock[AgentOf(r)] = 0
  /\ ops' = ops + 1
  /\ lock' = [lock EXCEPT ![AgentOf(r)] = r]
  /\ LET found == PatientByPhone(patients, phone)
     IN  req' = [req EXCEPT ![r] =
                   [IdleReq EXCEPT !.op = "book",
                      !.pc = IF found = 0 THEN "b_patient" ELSE "b_search",
                      !.patient_name = name, !.patient_phone = phone,
                      !.symptoms = text,
                      !.preferred_date = pdate, !.preferred_time = ptime,
                      !.patient_id = found]]
  /\ UNCHANGED <<today, time_slots, patients, appointments, avail, history, symptom_mappings, analysis, doctor_schedules>>

\* _get_or_create_patient: db.add(patient); db.commit()
Book_CreatePatient(r) ==
  /\ req[r].pc = "b_patient"
  /\ IF PhoneTaken(patients, req[r].patient_phone)
     THEN /\ Finish(r, FaultOutcome("book"))
          /\ UNCHANGED patients
     ELSE /\ patients' = Append(patients,
                           [id |-> Len(patients) + 1, name |-> req[r].patient_name,
                            phone |-> req[r].patient_phone])
          /\ req' = [req EXCEPT ![r].pc = "b_search",
                                ![r].patient_id = Len(patients) + 1,
                                ![r].commits = @ + 1]
          /\ UNCHANGED lock
  /\ UNCHANGED <<today, time_slots, appointments, ops, avail, history, symptom_mappings, analysis, doctor_schedules>>

\* a booking pipeline without the urgency return
BookGateNoUrgency(recommended_doctors, urgency_level) ==
  IF recommended_doctors = <<>> THEN "no_candidate" ELSE "search"

\* what book_appointment does with the matcher's and the classifier's answers
\* before it searches for a slot
BookGate(recommended_doctors, urgency_level) ==
  IF recommended_doctors = <<>> THEN "no_candidate"
  ELSE IF urgency_level = "high" THEN "urgency_block"
  ELSE "search"

\* the matcher's and the classifier's answers for the texts in use
RecommendedFor == [t \in Texts |-> search_doctors_by_symptoms(Chars[t])]
UrgencyFor == [t \in Texts |-> get_urgent_symptoms_check(Chars[t])]

\* symptom match, urgency check and _find_best_available_slot
Book_Search(r) ==
  /\ req[r].pc = "b_search"
  /\ LET recommended_doctors == RecommendedFor[req[r].symptoms]
         urgency_check == UrgencyFor[req[r].symptoms]
         gate == BookGate(recommended_doctors, urgency_check.urgency_level)
         best_slot == _find_best_available_slot(appointments, time_slots, today,
                        recommended_doctors, req[r].preferred_date,
                        req[r].preferred_time)
     IN  IF gate # "search" THEN Finish(r, gate)
         ELSE IF best_slot = <<>>
         THEN /\ req' = [req EXCEPT ![r] =
                   Returned([req[r] EXCEPT !.available_slots =
                               BookAlternatives(appointments, time_slots, today,
                                                recommended_doctors)],
                            "no_availability")]
              /\ lock' = [lock EXCEPT ![AgentOf(r)] = 0]
         ELSE /\ req' = [req EXCEPT ![r].pc = "b_serial",
                                    ![r].best_slot = best_slot]
              /\ UNCHANGED lock
  /\ UNCHANGED <<today, time_slots, patients, appointments, ops, avail, history, symptom_mappings, analysis, doctor_schedules>>

\* _create_appointment: generate_serial_number reads the last row
Book_Serial(r) ==
  /\ req[r].pc = "b_serial"
  /\ req' = [req EXCEPT ![r].pc = "b_insert",
                        ![r].serial_number = generate_serial_number(appointments)]
  /\ UNCHANGED <<today, time_slots, patients, appointments, lock, ops, avail, history, symptom_mappings, analysis, doctor_schedules>>

\* the row _create_appointment adds
NewAppointment(r, id) ==
  [id |-> id, patient_id |-> req[r].patient_id,
   doctor_id |-> req[r].best_slot[1].doctor_id,
   appointment_date |-> req[r].best_slot[1].date,
   appointment_time |-> ParseHM(req[r].best_slot[1].time),
   status |-> "scheduled", symptoms |-> req[r].symptoms, notes |-> <<>>,
   serial_number |-> req[r].serial_number, booking_channel |-> "web"]

\* an appointments table that accepts every row
InsertNeverRejected(appts, row) == FALSE

\* whether the INSERT of the new row violates a constraint of the table
InsertRejected(appts, row) == SerialTaken(appts, row.serial_number)

\* a commit that leaves the row in the table although it raised
AfterInsertNoRollback(appts, row) == Append(appts, row)

\* the table after db.add(appointment); db.commit(): a rejected INSERT is
\* rolled back
AfterInsert(appts, row) ==
  IF InsertRejected(appts, row) THEN appts ELSE Append(appts, row)

\* _create_appointment: db.add(appointment); db.commit(); then the response
Book_Insert(r) ==
  /\ req[r].pc = "b_insert"
  /\ LET row == NewAppointment(r, Len(appointments) + 1)
     IN  /\ appointments' = AfterInsert(appointments, row)
         /\ IF InsertRejected(appointments, row)
            THEN Finish(r, FaultOutcome("book"))
            ELSE /\ req' = [req EXCEPT ![r] =
                           Returned([req[r] EXCEPT !.commits = @ + 1], "success")]
                 /\ lock' = [lock EXCEPT ![AgentOf(r)] = 0]
  /\ UNCHANGED <<today, time_slots, patients, ops, avail, history, symptom_mappings, analysis, doctor_schedules>>

(* ------------------------ cancelAppointment -------------------------- *)

\* cancel_appointment is called: the appointment is read
Cancel_Begin(r, appointment_id, reason) ==
  /\ FirstIdle(r)
  /\ ops < MaxOps
  /\ ops' = ops + 1
  /\ LET appointment == ScheduledById(appointments, appointment_id)
     IN  req' = [req EXCEPT ![r] =
                   IF appointment = <<>>
                   THEN [Returned([IdleReq EXCEPT !.op = "cancel"], "not_found")
                           EXCEPT !.appointment_id = appointment_id]
                   ELSE [IdleReq EXCEPT !.op = "cancel", !.pc = "c_commit",
                           !.appointment_id = appointment_id, !.reason = reason,
                           !.loaded = appointment]]
  /\ UNCHANGED <<today, time_slots, patients, appointments, lock, avail, history, symptom_mappings, analysis, doctor_schedules>>

\* appointment.notes = f"Cancelled: {reason}" if reason else "Cancelled by patient"
CancelNotes(reason) ==
  IF reason # "" THEN <<"Cancelled: ", reason>> ELSE <<"Cancelled by patient">>

\* appointment.status = "cancelled"; db.commit(): the UPDATE of the row
Cancel_Commit(r) ==
  /\ req[r].pc = "c_commit"
  /\ appointments' = [appointments EXCEPT
                        ![req[r].loaded[1].id].status = "cancelled",
                        ![req[r].loaded[1].id].notes = CancelNotes(req[r].reason)]
  /\ req' = [req EXCEPT ![r] =
               Returned([req[r] EXCEPT !.commits = @ + 1], "success")]
  /\ UNCHANGED <<today, time_slots, patients, lock, ops, avail, history, symptom_mappings, analysis, doctor_schedules>>

(* ---------------------- rescheduleAppointment ------------------------ *)

\* reschedule_appointment is called: the appointment is read
Resched_Begin(r, appointment_id, new_date, new_time) ==
  /\ FirstIdle(r)
  /\ ops < MaxOps
  /\ ops' = ops + 1
  /\ LET appointment == ScheduledById(appointments, appointment_id)
     IN  req' = [req EXCEPT ![r] =
                   IF appointment = <<>>
                   THEN [Returned([IdleReq EXCEPT !.op = "reschedule"], "not_found")
                           EXCEPT !.appointment_id = appointment_id]
                   ELSE [IdleReq EXCEPT !.op = "reschedule", !.pc = "r_check",
                           !.appointment_id = appointment_id,
                           !.new_date = new_date, !.new_time = new_time,
                           !.loaded = appointment]]
  /\ UNCHANGED <<today, time_slots, patients, appointments, lock, avail, history, symptom_mappings, analysis, doctor_schedules>>

\* a check that leaves the appointment's own row out
RescheduleAllowedButOwn(appts, slots, appointment, new_date, new_time) ==
  _is_slot_still_available(SelectSeq(appts, LAMBDA a : a.id # appointment.id), slots,
                           appointment.doctor_id, new_date, new_time)

\* the check reschedule_appointment makes of the new slot
RescheduleAllowed(appts, slots, appointment, new_date, new_time) ==
  _is_slot_still_available(appts, slots, appointment.doctor_id, new_date, new_time)

\* "Check if new slot is available"
Resched_Check(r) ==
  /\ req[r].pc = "r_check"
  /\ IF RescheduleAllowed(appointments, time_slots, req[r].loaded[1],
                          req[r].new_date, req[r].new_time)
     THEN req' = [req EXCEPT ![r].pc = "r_commit"]
     ELSE req' = [req EXCEPT ![r] = Returned(req[r], "conflict")]
  /\ UNCHANGED <<today, time_slots, patients, appointments, lock, ops, avail, history, symptom_mappings, analysis, doctor_schedules>>

\* the row after the UPDATE the commit flushes: the session writes the
\* attributes whose new value differs from the value it loaded
RescheduledRow(row, loaded, new_date, new_time) ==
  [row EXCEPT
     !.appointment_date = IF new_date # loaded.appointment_date
                          THEN new_date ELSE row.appointment_date,
     !.appointment_time = IF new_time # loaded.appointment_time
                          THEN new_time ELSE row.appointment_time,
     !.notes = <<"Rescheduled on">>]

\* appointment.appointment_date = new_date; ...; db.commit()
Resched_Commit(r) ==
  /\ req[r].pc = "r_commit"
  /\ LET id == req[r].loaded[1].id
     IN  appointments' = [appointments EXCEPT
                            ![id] = RescheduledRow(appointments[id], req[r].loaded[1],
                                                   req[r].new_date, req[r].new_time)]
  /\ req' = [req EXCEPT ![r] =
               Returned([req[r] EXCEPT !.commits = @ + 1], "success")]
  /\ UNCHANGED <<today, time_slots, patients, lock, ops, avail, history, symptom_mappings, analysis, doctor_schedules>>

(* -------------------------- specification ---------------------------- *)

\* (symptoms, preferred date, preferred time) bookings are issued with
BookInputs(now) ==
  { <<"Chest pain", None, None>>,
    <<"Chest pain", now + 1, T(19, 0)>>,
    <<"severe chest pain", None, None>>,
    <<"unconscious", None, None>>,
    <<"routine checkup", None, None>>,
    <<"routine checkup", now + 1, T(19, 0)>> }

\* appointment ids cancel and reschedule are issued with: every row, and one
\* id that no row has
IdChoices(appts) == 1..(Len(appts) + 1)

\* new (date, time) pairs reschedules are issued with
NewSlots(now) == { <<now, T(18, 0)>>, <<now + 1, T(18, 0)>>, <<now + 1, T(18, 30)>> }

Next ==
  \/ \E r \in Req, name \in Names, phone \in Phones, in \in BookInputs(today) :
       Book_Begin(r, name, phone, in[1], in[2], in[3])
  \/ \E r \in Req : Book_CreatePatient(r)
  \/ \E r \in Req : Book_Search(r)
  \/ \E r \in Req : Book_Serial(r)
  \/ \E r \in Req : Book_Insert(r)
  \/ \E r \in Req, id \in IdChoices(appointments), reason \in Reasons :
       Cancel_Begin(r, id, reason)
  \/ \E r \in Req : Cancel_Commit(r)
  \/ \E r \in Req, id \in IdChoices(appointments) :
       \E new \in NewSlots(today) : Resched_Begin(r, id, new[1], new[2])
  \/ \E r \in Req : Resched_Check(r)
  \/ \E r \in Req : Resched_Commit(r)

Spec == Init /\ [][Next]_vars

(* --------------------------- getAvailability -------------------------- *)

\* the longest range (days) availability is asked for
MaxAvailDays == 2

\* a route that serves the previous answer again when the question is the same
GetAvailabilityCached(doctor_id, start_date, days) ==
  /\ IF avail = <<>> THEN TRUE ELSE avail[1].read # appointments
  /\ LET hit == /\ avail # <<>>
                /\ avail[1].doctor_id = doctor_id
                /\ avail[1].start_date = start_date
                /\ avail[1].days = days
     IN  avail' = << [doctor_id |-> doctor_id, start_date |-> start_date, days |-> days,
                      found |-> doctor_id \in DoctorIds,
                      slots |-> IF hit THEN avail[1].slots
                                ELSE DoctorAvailability(TimesTable(doctor_schedules),
                                       appointments, time_slots,
                                       today, doctor_id, start_date, days),
                      read |-> appointments] >> \o Take(avail, 1)
  /\ UNCHANGED <<today, time_slots, patients, appointments, req, lock, ops, history, symptom_mappings, analysis, doctor_schedules>>

\* GET /availability/{doctor_id}: the slot list, and whether the doctor exists.
\* avail keeps the last two answers, each with the appointments table it was
\* computed from; a call is issued at the start and after the table changed
GetAvailability(doctor_id, start_date, days) ==
  /\ IF avail = <<>> THEN TRUE ELSE avail[1].read # appointments
  /\ avail' = << [doctor_id |-> doctor_id, start_date |-> start_date, days |-> days,
                  found |-> doctor_id \in DoctorIds,
                  slots |-> DoctorAvailability(TimesTable(doctor_schedules),
                                               appointments, time_slots, today,
                                               doctor_id, start_date, days),
                  read |-> appointments] >> \o Take(avail, 1)
  /\ UNCHANGED <<today, time_slots, patients, appointments, req, lock, ops, history, symptom_mappings, analysis, doctor_schedules>>

\* appointment rows a store is drawn from, in id order; dates are day numbers
\* (0 and 7 are Mondays).  Two rows share a slot: one cancelled, then one
\* booked again
PoolRow(doctor_id, d, t, status) ==
  [id |-> 0, patient_id |-> 1, doctor_id |-> doctor_id,
   appointment_date |-> d, appointment_time |-> t,
   status |-> status, symptoms |-> "Chest pain", notes |-> <<>>,
   serial_number |-> <<>>, booking_channel |-> "web"]

AppointmentPool ==
  << PoolRow(1, 1, T(18, 0), "cancelled"),
     PoolRow(1, 1, T(18, 0), "scheduled"),
     PoolRow(1, 1, T(19, 30), "completed"),
     PoolRow(3, 0, T(11, 0), "scheduled"),
     PoolRow(1, 2, T(18, 30), "scheduled") >>

\* the rows of the pool picked by S, with ids and serials in insert order
RECURSIVE PickRows(_, _)
PickRows(i, S) ==
  IF i > Len(AppointmentPool) THEN <<>>
  ELSE (IF i \in S THEN <<AppointmentPool[i]>> ELSE <<>>) \o PickRows(i + 1, S)

StoreOf(S) ==
  LET rows == PickRows(1, S)
  IN  [k \in 1..Len(rows) |->
         [rows[k] EXCEPT !.id = k, !.serial_number = FormatSerial(k)]]

\* time_slots rows a store is drawn from: one blocked, one not
TimeSlotPool ==
  { [doctor_id |-> 1, slot_date |-> 1, slot_time |-> T(18, 30), is_blocked |-> TRUE],
    [doctor_id |-> 1, slot_date |-> 1, slot_time |-> T(19, 0), is_blocked |-> FALSE] }

InitAvail ==
  /\ today \in 0..6
  /\ time_slots \in SUBSET TimeSlotPool
  /\ patients = <<[id |-> 1, name |-> "Test Patient", phone |-> "+8801999999999"]>>
  /\ \E S \in SUBSET (1..Len(AppointmentPool)) : appointments = StoreOf(S)
  /\ req = [r \in Req |-> IdleReq]
  /\ lock = [a \in Req |-> 0]
  /\ ops = 0
  /\ avail = <<>>
  /\ history = <<>>
  /\ symptom_mappings = SymptomMappings
  /\ analysis = <<>>
  /\ doctor_schedules = Schedules

\* doctor ids availability is asked for: the doctors, and an id no doctor has
AvailDoctors == DoctorIds \cup {Len(Doctors) + 1}

NextAvail ==
  \E doctor_id \in AvailDoctors, start_date \in {None, 0, 1}, days \in 0..MaxAvailDays :
     GetAvailability(doctor_id, start_date, days)

SpecAvail == InitAvail /\ [][NextAvail]_vars

(* ------------------------------ properties --------------------------- *)

SameSlot(a, b) ==
  /\ a.doctor_id = b.doctor_id
  /\ a.appointment_date = b.appointment_date
  /\ a.appointment_time = b.appointment_time

\* rows i < j that are both scheduled and hold the same (doctor, date, time)
Clash(i, j) ==
  /\ i < j
  /\ appointments[i].status = "scheduled"
  /\ appointments[j].status = "scheduled"
  /\ SameSlot(appointments[i], appointments[j])

Rows == 1..Len(appointments)

\* a row as book_appointment inserted it, untouched since
Booked(i) == appointments[i].booking_channel = "web" /\ appointments[i].notes = <<>>

\* a row a reschedule has moved
Moved(i) == appointments[i].notes = <<"Rescheduled on">>

InFlight(r) == req[r].pc # "idle"

\* C1: in every reachable state no two scheduled appointments have the same
\* (doctor id, date, time), whatever the interleaving of book, cancel and
\* reschedule calls
C1_NoDoubleBooking == \A i, j \in Rows : ~Clash(i, j)

\* C2: two concurrent book calls that contend for one free slot never both
\* commit an appointment for it: no two rows inserted by book are scheduled
\* at the same (doctor id, date, time)
C2_OneBookingPerSlot == \A i, j \in Rows : ~(Clash(i, j) /\ Booked(i) /\ Booked(j))

\* C3: mutating operations are serialized: at no time are two of book, cancel
\* and reschedule both between their first store read and their return
C3_OneMutatorAtATime == Cardinality({r \in Req : InFlight(r)}) <= 1

\* C4: a reschedule and another call (a reschedule or a book) that target the
\* same free slot never both commit it: no row moved by reschedule is
\* scheduled at the (doctor id, date, time) of another scheduled row
C4_RescheduleNoLostUpdate ==
  \A i, j \in Rows : ~(Clash(i, j) /\ (Moved(i) \/ Moved(j)))

\* C5: in every reachable state no two appointments, of any status, carry the
\* same serial number
C5_SerialsUnique ==
  \A i, j \in Rows : i # j => appointments[i].serial_number # appointments[j].serial_number

\* a second booking is about to insert a serial a committed row already has
C5_DuplicateSerialAttempted ==
  \E r \in Req :
     /\ req[r].pc = "b_insert"
     /\ \E i \in Rows : /\ Booked(i)
                        /\ appointments[i].serial_number = req[r].serial_number

\* C6: serial numbers increase strictly in commit order: a row committed
\* before another (rows are in commit order) has the smaller numeric suffix
C6_SerialsIncreasing ==
  \A i, j \in Rows :
     i < j => SerialSuffix(appointments[i].serial_number)
                < SerialSuffix(appointments[j].serial_number)

\* two bookings have committed, one after the other
C6_TwoBookingsCommitted == \E i, j \in Rows : i < j /\ Booked(i) /\ Booked(j)

\* a book call in flight whose symptom text the classifier rates high
HighUrgencyBook(r) ==
  /\ req[r].op = "book"
  /\ InFlight(r)
  /\ UrgencyFor[req[r].symptoms].urgency_level = "high"

\* C7: a book call whose symptom text is classified high never gets past the
\* gate to the slot search (it never holds a found slot, never reports on
\* availability) and none of its steps changes the appointments table
C7_HighUrgencyNeverBooks ==
  [][\A r \in Req :
        HighUrgencyBook(r) =>
          /\ req'[r].pc \notin {"b_serial", "b_insert"}
          /\ req'[r].result \notin {"no_availability", "success"}
          /\ (req'[r] # req[r] => appointments' = appointments)]_vars

\* a book call has ended in the urgency block
C7_UrgencyBlockReturned ==
  \E r \in Req : req[r].op = "book" /\ req[r].result = "urgency_block"

\* C8: a book call whose symptom text is classified high returns the urgency
\* block whatever the matcher returns (a store fault aside)
C8_HighUrgencyReturnsBlock ==
  [][\A r \in Req :
        (HighUrgencyBook(r) /\ req'[r].pc = "idle")
          => req'[r].result \in {"urgency_block", "store_error"}]_vars

\* C9: a book call that ends in the urgency block has committed nothing
C9_UrgencyBlockWritesNothing ==
  \A r \in Req : req[r].result = "urgency_block" => req[r].commits = 0

\* C10: no slot getAvailability returns coincides with a scheduled
\* appointment of the doctor or with a blocked slot of the doctor, in the
\* store the call read
C10_AvailabilityOmitsTaken ==
  \A k \in 1..Len(avail) : \A n \in 1..Len(avail[k].slots) :
     LET s == avail[k].slots[n]
     IN  /\ ~\E i \in Rows :
               /\ appointments[i].status = "scheduled"
               /\ appointments[i].doctor_id = s.doctor_id
               /\ appointments[i].appointment_date = s.date
               /\ appointments[i].appointment_time = ParseHM(s.time)
         /\ ~\E b \in time_slots :
               /\ b.is_blocked
               /\ b.doctor_id = s.doctor_id
               /\ b.slot_date = s.date
               /\ b.slot_time = ParseHM(s.time)

\* an answer with slots on a day that has a scheduled appointment (a slot
\* cancelled and booked again) and a blocked slot of the doctor
C10_TakenSlotsInRange ==
  \E k \in 1..Len(avail) :
     LET a == avail[k]
         days == {a.slots[n].date : n \in 1..Len(a.slots)}
     IN  /\ a.slots # <<>>
         /\ \E i, j \in Rows :
               /\ i < j
               /\ SameSlot(appointments[i], appointments[j])
               /\ appointments[i].status = "cancelled"
               /\ appointments[j].status = "scheduled"
               /\ appointments[j].doctor_id = a.doctor_id
               /\ appointments[j].appointment_date \in days
         /\ \E b \in time_slots :
               /\ b.is_blocked
               /\ b.doctor_id = a.doctor_id
               /\ b.slot_date \in days

\* the dates a getAvailability call covers
DatesOf(a) ==
  LET start == IF a.start_date = None THEN today ELSE a.start_date
  IN  start..(start + a.days)

\* the times an answer lists for date d, in the order listed
TimesOn(a, d) ==
  LET on == SelectSeq(a.slots, LAMBDA s : s.date = d)
  IN  [n \in 1..Len(on) |-> on[n].time]

\* the doctor's active rule for the weekday of date d (0 = Sunday), if any
RulesOn(doctor_id, d) ==
  {i \in 1..Len(Schedules) :
     /\ Schedules[i].doctor_id = doctor_id
     /\ Schedules[i].is_active
     /\ Schedules[i].day_of_week = ((d % 7) + 1) % 7}

\* the doctor has no scheduled appointment and no blocked slot on date d
FreeDay(doctor_id, d) ==
  /\ ~\E i \in Rows : /\ appointments[i].doctor_id = doctor_id
                      /\ appointments[i].appointment_date = d
                      /\ appointments[i].status = "scheduled"
  /\ ~\E b \in time_slots : b.doctor_id = doctor_id /\ b.slot_date = d /\ b.is_blocked

\* start, start + 30 min, ... strictly before end, as (hour, minute) pairs
HalfHours(start, end) ==
  LET n == (end - start + 1799) \div 1800
  IN  [k \in 1..n |-> << (start + (k - 1) * 1800) \div 3600,
                         ((start + (k - 1) * 1800) % 3600) \div 60 >>]

\* C11: for a doctor and a date whose weekday has an active rule [start, end)
\* and on which the doctor has no scheduled appointment and no blocked slot,
\* the times getAvailability returns for that date are exactly start,
\* start + 30 min, ... strictly before end
C11_FreeDayYieldsAllSlots ==
  \A k \in 1..Len(avail) :
     LET a == avail[k]
     IN  a.found =>
           \A d \in DatesOf(a) : \A i \in RulesOn(a.doctor_id, d) :
              FreeDay(a.doctor_id, d) =>
                TimesOn(a, d) = HalfHours(Schedules[i].start_time, Schedules[i].end_time)

\* doctor 1 (rule 18:00-20:00) was asked about a free day and the answer
\* lists 18:00, 18:30, 19:00, 19:30 for it
C11_FourEveningSlots ==
  \E k \in 1..Len(avail) : \E d \in DatesOf(avail[k]) :
     /\ avail[k].doctor_id = 1
     /\ FreeDay(1, d)
     /\ RulesOn(1, d) # {}
     /\ TimesOn(avail[k], d) = << <<18, 0>>, <<18, 30>>, <<19, 0>>, <<19, 30>> >>

(* -------------------- booking, then getAvailability ------------------- *)

\* bookings and cancellations interleaved with availability questions about
\* doctor 1, the doctor the bookings go to
NextBookAvail ==
  \/ \E r \in Req, name \in Names, phone \in Phones :
       Book_Begin(r, name, phone, "Chest pain", None, None)
  \/ \E r \in Req : Book_CreatePatient(r)
  \/ \E r \in Req : Book_Search(r)
  \/ \E r \in Req : Book_Serial(r)
  \/ \E r \in Req : Book_Insert(r)
  \/ \E r \in Req, id \in IdChoices(appointments), reason \in Reasons :
       Cancel_Begin(r, id, reason)
  \/ \E r \in Req : Cancel_Commit(r)
  \/ \E days \in 0..1 : GetAvailability(1, None, days)

SpecBookAvail == Init /\ [][NextBookAvail]_vars

\* the answer lists a slot at the (date, time) of row i
Lists(a, i) ==
  \E n \in 1..Len(a.slots) :
     /\ a.slots[n].date = appointments[i].appointment_date
     /\ ParseHM(a.slots[n].time) = appointments[i].appointment_time

\* C12: after a successful book commits (doctor, date, time), every later
\* getAvailability answer for that doctor omits that slot for as long as the
\* appointment stays scheduled, also when the same question was answered
\* before the booking
C12_BookedSlotLeavesAvailability ==
  [][avail' # avail =>
       \A i \in Rows :
          (/\ Booked(i)
           /\ appointments[i].status = "scheduled"
           /\ appointments[i].doctor_id = avail'[1].doctor_id)
            => ~Lists(avail'[1], i)]_vars

\* the same question was answered before and after a booking: the earlier
\* answer lists the slot, the later one does not
C12_AskedBeforeAndAfter ==
  /\ Len(avail) = 2
  /\ avail[1].doctor_id = avail[2].doctor_id
  /\ avail[1].start_date = avail[2].start_date
  /\ avail[1].days = avail[2].days
  /\ avail[1].read = appointments
  /\ \E i \in Rows :
        /\ Booked(i)
        /\ appointments[i].status = "scheduled"
        /\ appointments[i].doctor_id = avail[1].doctor_id
        /\ Lists(avail[2], i)
        /\ ~Lists(avail[1], i)

(* ----------------------- cancel and reschedule ------------------------ *)

\* task r starts a call in this step
Begins(r) == FirstIdle(r) /\ ops' # ops

\* C13: cancel and reschedule on an id that does not exist or whose
\* appointment is not scheduled return the not-found result and change
\* nothing in the store
C13_NotFoundChangesNothing ==
  [][\A r \in Req :
        (/\ Begins(r)
         /\ req'[r].op \in {"cancel", "reschedule"}
         /\ LET id == req'[r].appointment_id
            IN  id \notin Rows \/ appointments[id].status # "scheduled")
          => /\ req'[r].pc = "idle"
             /\ req'[r].result = "not_found"
             /\ appointments' = appointments
             /\ patients' = patients
             /\ time_slots' = time_slots]_vars

\* a call was refused for an appointment that is already cancelled
C13_RefusedForCancelled ==
  \E r \in Req :
     /\ req[r].result = "not_found"
     /\ req[r].appointment_id \in Rows
     /\ appointments[req[r].appointment_id].status = "cancelled"

\* C14: an appointment is created only by book, in status scheduled; the only
\* status change is scheduled -> cancelled, made by cancel; once an
\* appointment is not scheduled any more, no step changes its status, date or
\* time
C14_Lifecycle ==
  [][/\ Len(appointments') >= Len(appointments)
     /\ \A i \in 1..Len(appointments') :
          IF i \notin Rows
          THEN /\ appointments'[i].status = "scheduled"
               /\ \E r \in Req : req[r].op = "book" /\ req[r].pc = "b_insert"
          ELSE /\ appointments'[i].status # appointments[i].status
                    => /\ appointments[i].status = "scheduled"
                       /\ appointments'[i].status = "cancelled"
                       /\ \E r \in Req : req[r].pc = "c_commit"
               /\ appointments[i].status # "scheduled"
                    => /\ appointments'[i].status = appointments[i].status
                       /\ appointments'[i].appointment_date = appointments[i].appointment_date
                       /\ appointments'[i].appointment_time = appointments[i].appointment_time]_vars

\* C15: a successful reschedule changes only the date and the time of its
\* appointment: the status stays scheduled and every other field of the row,
\* and every other row, is as before
C15_RescheduleChangesOnlyDateTime ==
  [][\A r \in Req :
        (req[r].pc = "r_commit" /\ req'[r].result = "success")
          => LET id == req[r].appointment_id
             IN  /\ appointments' =
                      [appointments EXCEPT ![id].appointment_date = req[r].new_date,
                                           ![id].appointment_time = req[r].new_time]
                 /\ appointments'[id].status = "scheduled"]_vars

\* time t on date d lies inside an active rule of the doctor
InsideRule(doctor_id, d, t) ==
  \E i \in RulesOn(doctor_id, d) :
     Schedules[i].start_time <= t /\ t < Schedules[i].end_time

\* time t on date d is one of the slot starts of an active rule of the doctor
OnGrid(doctor_id, d, t) ==
  \E i \in RulesOn(doctor_id, d) :
     /\ Schedules[i].start_time <= t /\ t < Schedules[i].end_time
     /\ (t - Schedules[i].start_time) % 1800 = 0

Blocked(doctor_id, d, t) ==
  \E b \in time_slots :
     b.is_blocked /\ b.doctor_id = doctor_id /\ b.slot_date = d /\ b.slot_time = t

\* C16: every scheduled appointment's (date, time) lies inside an active
\* rule of its doctor for the date's weekday and is not a blocked slot
C16_ScheduledInsideRules ==
  \A i \in Rows :
     appointments[i].status = "scheduled"
       => /\ InsideRule(appointments[i].doctor_id, appointments[i].appointment_date,
                        appointments[i].appointment_time)
          /\ ~Blocked(appointments[i].doctor_id, appointments[i].appointment_date,
                      appointments[i].appointment_time)

\* C17: a reschedule succeeds only when the new (date, time) is a slot the
\* generator yields for the doctor (a slot start of an active rule, not
\* blocked, not held by a scheduled appointment); a reschedule refused as a
\* conflict leaves the appointments as they were
C17_RescheduleValidated ==
  [][\A r \in Req :
        /\ (req[r].pc = "r_commit" /\ req'[r].result = "success")
             => LET doc == req[r].loaded[1].doctor_id
                IN  /\ OnGrid(doc, req[r].new_date, req[r].new_time)
                    /\ ~Blocked(doc, req[r].new_date, req[r].new_time)
                    /\ ~\E i \in Rows :
                          /\ appointments[i].status = "scheduled"
                          /\ appointments[i].doctor_id = doc
                          /\ appointments[i].appointment_date = req[r].new_date
                          /\ appointments[i].appointment_time = req[r].new_time
        /\ (req[r].pc = "r_check" /\ req'[r].result = "conflict")
             => appointments' = appointments]_vars

(* ------------------------------ booking ------------------------------ *)

\* task r, inside a book call, takes a step
BookStep(r) == req[r].op = "book" /\ InFlight(r) /\ req'[r] # req[r]

C19_OnePatientPerPhone ==
  /\ [](/\ \A i, j \in 1..Len(patients) :
             i # j => patients[i].phone # patients[j].phone
        /\ \A r \in Req :
             req[r].pc \in {"b_search", "b_serial", "b_insert"}
               => /\ req[r].patient_id \in 1..Len(patients)
                  /\ patients[req[r].patient_id].phone = req[r].patient_phone)
  /\ [][patients' # patients =>
          \E r \in Req :
             /\ req[r].pc = "b_patient"
             /\ ~\E i \in 1..Len(patients) : patients[i].phone = req[r].patient_phone
             /\ Len(patients') = Len(patients) + 1
             /\ SubSeq(patients', 1, Len(patients)) = patients
             /\ patients'[Len(patients')].phone = req[r].patient_phone]_vars

\* a book call found the row an earlier call created for its phone, and goes
\* on without having committed anything
C19_ExistingPatientReused ==
  \E r \in Req :
     /\ req[r].pc = "b_search"
     /\ req[r].commits = 0
     /\ \E i \in 1..Len(patients) :
           patients[i].phone = req[r].patient_phone /\ req[r].patient_id = i

(* ----------------------- getPatientAppointments ----------------------- *)

\* the orders in which ORDER BY appointment_date DESC can return the rows S:
\* rows of one date come in an order the query does not fix
DateDescOrders(appts, S) ==
  {f \in [1..Cardinality(S) -> S] :
     /\ \A a, b \in 1..Cardinality(S) : a # b => f[a] # f[b]
     /\ \A a \in 1..(Cardinality(S) - 1) :
          appts[f[a]].appointment_date >= appts[f[a + 1]].appointment_date}

\* the answers get_patient_appointments can give: lists of appointment ids
get_patient_appointments(pats, appts, phone_number) ==
  LET patient == PatientByPhone(pats, phone_number)
  IN  IF patient = 0 THEN {<<>>}
      ELSE DateDescOrders(appts, {i \in 1..Len(appts) : appts[i].patient_id = patient})

GetPatientAppointments(phone_number) ==
  /\ \E list \in get_patient_appointments(patients, appointments, phone_number) :
        history' = << [phone_number |-> phone_number, list |-> list, fault |-> FALSE] >>
  /\ UNCHANGED <<today, time_slots, patients, appointments, req, lock, ops, avail, symptom_mappings, analysis, doctor_schedules>>

\* bookings whose slots fall on different days: tomorrow evening, or the
\* first free slot
HistoryBookInputs(now) ==
  { <<"Chest pain", None, None>>, <<"Chest pain", now + 1, T(19, 0)>> }

\* the phones appointment lists are asked for
HistoryPhones == Phones \cup {DemoPatients[1].phone}

NextHistory ==
  \/ \E r \in Req, name \in Names, phone \in Phones, in \in HistoryBookInputs(today) :
       Book_Begin(r, name, phone, in[1], in[2], in[3])
  \/ \E r \in Req : Book_CreatePatient(r)
  \/ \E r \in Req : Book_Search(r)
  \/ \E r \in Req : Book_Serial(r)
  \/ \E r \in Req : Book_Insert(r)
  \/ \E phone \in HistoryPhones : GetPatientAppointments(phone)

SpecHistory == Init /\ [][NextHistory]_vars

\* C20: asked right after a successful book for a phone (the newest row of
\* the table is that booking), getPatientAppointments(phone) returns the new
\* appointment as the first entry of its list, whatever other appointments
\* the patient has
C20_NewAppointmentListedFirst ==
  [][history' # history =>
       LET h    == history'[1]
           last == Len(appointments)
       IN  (/\ last > 0
            /\ Booked(last)
            /\ PatientByPhone(patients, h.phone_number) = appointments[last].patient_id)
             => h.list # <<>> /\ h.list[1] = last]_vars

(* ---------------------------- store faults --------------------------- *)

\* a store call of an operation in flight raises (the database is locked or
\* gone): nothing is written, the operation's except clause builds its answer,
\* and book's "with" block releases the lock
StoreFault(r) ==
  /\ req[r].pc # "idle"
  /\ req' = [req EXCEPT ![r] = Returned(req[r], FaultOutcome(req[r].op))]
  /\ lock' = [lock EXCEPT ![AgentOf(r)] = IF req[r].op = "book" THEN 0 ELSE @]
  /\ UNCHANGED <<today, time_slots, patients, appointments, ops, avail, history, symptom_mappings, analysis, doctor_schedules>>

\* get_patient_appointments when one of its queries raises: "return []"
GetPatientAppointments_Fault(phone_number) ==
  /\ history # << [phone_number |-> phone_number, list |-> <<>>, fault |-> TRUE] >>
  /\ history' = << [phone_number |-> phone_number, list |-> <<>>, fault |-> TRUE] >>
  /\ UNCHANGED <<today, time_slots, patients, appointments, req, lock, ops, avail, symptom_mappings, analysis, doctor_schedules>>

\* the bookings, and the new slot, calls are issued with when stores can fail
FaultBookInputs(now) == { <<"Chest pain", None, None>> }
FaultNewSlots(now) == { <<now + 1, T(18, 30)>>, <<now + 1, T(19, 0)>> }

NextFault ==
  \/ \E r \in Req, name \in Names, phone \in Phones, in \in FaultBookInputs(today) :
       Book_Begin(r, name, phone, in[1], in[2], in[3])
  \/ \E r \in Req : Book_CreatePatient(r)
  \/ \E r \in Req : Book_Search(r)
  \/ \E r \in Req : Book_Serial(r)
  \/ \E r \in Req : Book_Insert(r)
  \/ \E r \in Req, id \in IdChoices(appointments), reason \in Reasons :
       Cancel_Begin(r, id, reason)
  \/ \E r \in Req : Cancel_Commit(r)
  \/ \E r \in Req, id \in IdChoices(appointments) :
       \E new \in FaultNewSlots(today) : Resched_Begin(r, id, new[1], new[2])
  \/ \E r \in Req : Resched_Check(r)
  \/ \E r \in Req : Resched_Commit(r)
  \/ \E r \in Req : StoreFault(r)
  \/ \E phone \in HistoryPhones : GetPatientAppointments(phone)
  \/ \E phone \in HistoryPhones : GetPatientAppointments_Fault(phone)

SpecFault == Init /\ [][NextFault]_vars

\* what a caller of book, cancel or reschedule can be handed
StructuredResults ==
  {"success", "no_candidate", "urgency_block", "no_availability", "not_found",
   "conflict", "store_error"}

RECURSIVE StripLeft(_)
StripLeft(txt) ==
  IF txt # <<>> /\ Head(txt) = " " THEN StripLeft(Tail(txt)) ELSE txt

RECURSIVE StripRight(_)
StripRight(txt) ==
  IF txt # <<>> /\ txt[Len(txt)] = " "
  THEN StripRight(SubSeq(txt, 1, Len(txt) - 1)) ELSE txt

Strip(txt) == StripRight(StripLeft(txt))

\* the chat front end's test before it books (no specialty preference given):
\* "not symptoms or len(symptoms.strip()) < 5"
SymptomsMissing(symptoms) == symptoms = <<>> \/ Len(Strip(symptoms)) < 5

\* AppointmentBookingRequest: patient_name min_length 1, patient_phone
\* min_length 10 and max_length 15, symptoms min_length 1
ValidBookingRequest(patient_name, patient_phone, symptoms) ==
  /\ Len(patient_name) >= 1
  /\ Len(patient_phone) >= 10 /\ Len(patient_phone) <= 15
  /\ Len(symptoms) >= 1

\* POST /book: a body the request model rejects is answered without the agent
\* being called; any other body goes to book_appointment
Route_Book(r, name, phone, text) ==
  IF ValidBookingRequest(name, phone, Chars[text])
  THEN Book_Begin(r, name, phone, text, None, None)
  ELSE /\ FirstIdle(r)
       /\ ops < MaxOps
       /\ ops' = ops + 1
       /\ req' = [req EXCEPT ![r] =
                    Returned([IdleReq EXCEPT !.op = "book"], "validation_error")]
       /\ UNCHANGED <<today, time_slots, patients, appointments, lock, avail, history, symptom_mappings, analysis, doctor_schedules>>

\* the bodies POST /book is called with: a missing or a given name, a phone
\* that is too short or well-formed, a missing, a four-letter or a full text
RouteNames == {"", "Test Patient"}
RoutePhones == {"12345", "+8801999999999"}
RouteTexts == {"", "ache", "Chest pain"}

NextRoute ==
  \/ \E r \in Req, name \in RouteNames, phone \in RoutePhones, text \in RouteTexts :
       Route_Book(r, name, phone, text)
  \/ \E r \in Req : Book_CreatePatient(r)
  \/ \E r \in Req : Book_Search(r)
  \/ \E r \in Req : Book_Serial(r)
  \/ \E r \in Req : Book_Insert(r)

SpecRoute == Init /\ [][NextRoute]_vars

\* C22: a book call whose patient name is missing, or whose symptom text is
\* missing or not sufficiently descriptive, creates neither a Patient nor an
\* Appointment and ends with ValidationError
C22_UndescriptiveBookingRejected ==
  [][\A r \in Req :
        (/\ req[r].op = "book"
         /\ InFlight(r)
         /\ (req[r].patient_name = "" \/ SymptomsMissing(Chars[req[r].symptoms])))
          => /\ patients' = patients
             /\ appointments' = appointments
             /\ (req'[r].pc = "idle" => req'[r].result = "validation_error")]_vars

(* --------------------------- analyze-symptoms ------------------------- *)

\* the longest symptom text, in fragments
MaxWords == 3

\* what symptom texts are put together from
Fragments ==
  << <<"s","e","v","e","r","e"," ">>,
     <<"c","h","e","s","t"," ","p","a","i","n">>,
     <<"C","h","e","s","t"," ","P","a","i","n">>,
     <<" ","a","n","d"," ">>,
     <<"p","a","l","p","i","t","a","t","i","o","n","s">>,
     <<"s","t","o","m","a","c","h"," ","p","a","i","n">>,
     <<"U","R","G","E","N","T">>,
     <<"r","o","u","t","i","n","e"," ","c","h","e","c","k","u","p">> >>

\* the texts of up to n fragments
RECURSIVE TextsOf(_)
TextsOf(n) ==
  IF n = 0 THEN {<<>>}
  ELSE LET shorter == TextsOf(n - 1)
       IN  shorter \cup {t \o Fragments[i] : t \in shorter, i \in 1..Len(Fragments)}

\* SymptomAnalysisRequest.symptoms: min_length 1
AnalyzeTexts == TextsOf(MaxWords) \ {<<>>}

\* symptom_mappings tables: the demo rows; the demo rows read in the opposite
\* order; a table of rows with the default priority 1 in which Cardiology
\* has two rows, read with the Gastroenterology row first; that table read in
\* the opposite order
Reversed(s) == [i \in 1..Len(s) |-> s[Len(s) + 1 - i]]

DefaultPriorityMappings ==
  << [id |-> 1, symptom_keywords |-> <<GastroKeywords[1]>>, specialty_id |-> 2, priority |-> 1],
     [id |-> 2, symptom_keywords |-> <<CardiologyKeywords[1]>>, specialty_id |-> 1, priority |-> 1],
     [id |-> 3, symptom_keywords |-> <<CardiologyKeywords[4]>>, specialty_id |-> 1, priority |-> 1],
     [id |-> 4, symptom_keywords |-> GeneralKeywords, specialty_id |-> 3, priority |-> 1] >>

Catalogs ==
  { SymptomMappings, Reversed(SymptomMappings),
    DefaultPriorityMappings, Reversed(DefaultPriorityMappings) }

\* POST /analyze-symptoms: the matcher's and the classifier's answers, and the
\* doctors of the response in the matcher's order.  The answer depends on the
\* request and the symptom_mappings table only: a behaviour holds one call
AnalyzeSymptoms(symptoms) ==
  /\ analysis = <<>>
  /\ LET recommended_doctors == RankedDoctors(symptom_mappings, symptoms)
         urgency_check == get_urgent_symptoms_check(symptoms)
     IN  analysis' = << [symptoms |-> symptoms,
                         recommended_doctors |-> recommended_doctors,
                         urgency_level |-> urgency_check.urgency_level,
                         suggested_doctors |->
                           [i \in 1..Len(recommended_doctors) |->
                              recommended_doctors[i].id]] >>
  /\ UNCHANGED <<today, time_slots, patients, appointments, req, lock, ops, avail,
                 history, symptom_mappings, doctor_schedules>>

InitAnalyze ==
  /\ today = 0
  /\ time_slots = {}
  /\ patients = DemoPatients
  /\ appointments = DemoAppointments(0)
  /\ req = [r \in Req |-> IdleReq]
  /\ lock = [a \in Req |-> 0]
  /\ ops = 0
  /\ avail = <<>>
  /\ history = <<>>
  /\ symptom_mappings \in Catalogs
  /\ analysis = <<>>
  /\ doctor_schedules = Schedules

NextAnalyze == \E symptoms \in AnalyzeTexts : AnalyzeSymptoms(symptoms)

SpecAnalyze == InitAnalyze /\ [][NextAnalyze]_vars

\* some keyword of the list occurs in the lower-cased text
SomeKeywordIn(kws, txt) == \E i \in 1..Len(kws) : Contains(kws[i], Lower(txt))

\* C23: classify(text) is high iff a high-severity keyword occurs in the
\* lower-cased text, medium iff none does and a medium-severity keyword
\* occurs, low otherwise; "severe chest pain" is high, "chest pain" is medium
\* and "routine checkup" is low
C23_ClassifyBySeverity ==
  analysis # <<>> =>
    LET a    == analysis[1]
        high == SomeKeywordIn(urgent_keywords, a.symptoms)
        med  == SomeKeywordIn(medium_keywords, a.symptoms)
    IN  /\ a.urgency_level \in {"high", "medium", "low"}
        /\ (a.urgency_level = "high") = high
        /\ (a.urgency_level = "medium") = (~high /\ med)
        /\ (a.symptoms = Chars["severe chest pain"] => a.urgency_level = "high")
        /\ (a.symptoms = Fragments[2] => a.urgency_level = "medium")
        /\ (a.symptoms = Chars["routine checkup"] => a.urgency_level = "low")

\* "severe chest pain", which holds the medium keyword "chest pain", was rated high
C23_SevereChestPainHigh ==
  /\ analysis # <<>>
  /\ analysis[1].symptoms = Chars["severe chest pain"]
  /\ Contains(medium_keywords[1], analysis[1].symptoms)
  /\ analysis[1].urgency_level = "high"

\* the id of the specialty with the given name
SpecialtyIdOf(name) ==
  (CHOOSE i \in 1..Len(Specialties) : Specialties[i].name = name)

\* some keyword of the catalog entry occurs, case-insensitively, in the text
EntryMatches(mapping, txt) ==
  \E i \in 1..Len(mapping.symptom_keywords) :
     Contains(Lower(mapping.symptom_keywords[i]), Lower(txt))

\* the weights of the first n entries that belong to the specialty and match
\* the text, each entry counted once
RECURSIVE WeightOnce(_, _, _, _)
WeightOnce(mappings, specialty_id, txt, n) ==
  IF n = 0 THEN 0
  ELSE WeightOnce(mappings, specialty_id, txt, n - 1)
         + (IF mappings[n].specialty_id = specialty_id /\ EntryMatches(mappings[n], txt)
            THEN mappings[n].priority ELSE 0)

\* C24: the score the matcher gives a specialty is the sum of the weights of
\* that specialty's catalog entries that have at least one keyword occurring
\* case-insensitively in the text, each matching entry counted once
C24_ScoreCountsEntryOnce ==
  analysis # <<>> =>
    \A i \in 1..Len(analysis[1].recommended_doctors) :
       LET doctor == analysis[1].recommended_doctors[i]
       IN  doctor.match_score =
             WeightOnce(symptom_mappings, SpecialtyIdOf(doctor.specialty),
                        analysis[1].symptoms, Len(symptom_mappings))

\* C25: match selects at most 3 specialties, in descending order of total
\* score; specialties of equal score come in ascending specialty id, and the
\* selection does not depend on the order in which the catalog entries are read
C25_TiesBySpecialtyId ==
  analysis # <<>> =>
    LET docs == analysis[1].recommended_doctors
    IN  /\ Cardinality({docs[i].specialty : i \in 1..Len(docs)}) <= TopSpecialties
        /\ \A i, j \in 1..Len(docs) :
              i < j => \/ docs[i].match_score > docs[j].match_score
                       \/ /\ docs[i].match_score = docs[j].match_score
                          /\ SpecialtyIdOf(docs[i].specialty)
                               <= SpecialtyIdOf(docs[j].specialty)
        /\ docs = RankedDoctors(Reversed(symptom_mappings), analysis[1].symptoms)

\* the total the matcher's scoring loop gives a specialty over the first n rows
RECURSIVE AggregateScore(_, _, _, _)
AggregateScore(mappings, specialty_id, txt, n) ==
  IF n = 0 THEN 0
  ELSE AggregateScore(mappings, specialty_id, txt, n - 1)
         + (IF mappings[n].specialty_id = specialty_id
            THEN MappingScore(mappings[n], Lower(txt)) ELSE 0)

BlockedFrom(doctor_id, first, days) ==
  { [doctor_id |-> doctor_id, slot_date |-> d, slot_time |-> t, is_blocked |-> TRUE] :
      d \in first..(first + days - 1),
      t \in {T(18, 0), T(18, 30), T(19, 0), T(19, 30)} }

\* the stores bookings with preferences start from: the seeded store on a
\* Monday; the same with doctor 1 blocked for two weeks, and for a day more;
\* an empty store on a Friday, and on a Sunday
AllocateStores ==
  { <<0, {}, DemoPatients, DemoAppointments(0)>>,
    <<0, BlockedFrom(1, 0, SearchDays), DemoPatients, DemoAppointments(0)>>,
    <<0, BlockedFrom(1, 0, SearchDays + 1), DemoPatients, DemoAppointments(0)>>,
    <<4, {}, <<>>, <<>> >>,
    <<6, {}, <<>>, <<>> >> }

InitAllocate ==
  /\ \E st \in AllocateStores :
        /\ today = st[1]
        /\ time_slots = st[2]
        /\ patients = st[3]
        /\ appointments = st[4]
  /\ req = [r \in Req |-> IdleReq]
  /\ lock = [a \in Req |-> 0]
  /\ ops = 0
  /\ avail = <<>>
  /\ history = <<>>
  /\ symptom_mappings = SymptomMappings
  /\ analysis = <<>>
  /\ doctor_schedules = Schedules

\* (symptoms, preferred date, preferred time) of the bookings: no preference;
\* an evening four days, or one day, ahead; a morning (before doctor 1's
\* hours); 21:30, two hours after doctor 1's last slot; a morning at doctor
\* 3's; a date only; a text that matches two specialties, no preference
AllocateInputs(now) ==
  { <<"Chest pain", None, None>>,
    <<"chest pain and flu", None, None>>,
    <<"Chest pain", now + 4, T(19, 0)>>,
    <<"Chest pain", now + 1, T(19, 0)>>,
    <<"Chest pain", None, T(9, 0)>>,
    <<"Chest pain", now + 1, T(21, 30)>>,
    <<"routine checkup", None, T(9, 0)>>,
    <<"routine checkup", now, None>> }

\* bookings issued one after the other
NextAllocate ==
  \/ \E r \in Req, name \in Names, phone \in Phones, in \in AllocateInputs(today) :
       /\ \A q \in Req : req[q].pc = "idle"
       /\ Book_Begin(r, name, phone, in[1], in[2], in[3])
  \/ \E r \in Req : Book_CreatePatient(r)
  \/ \E r \in Req : Book_Search(r)
  \/ \E r \in Req : Book_Serial(r)
  \/ \E r \in Req : Book_Insert(r)

SpecAllocate == InitAllocate /\ [][NextAllocate]_vars

\* a book call holds the slot the allocator accepted for it
HoldsSlot(r) == req[r].pc \in {"b_serial", "b_insert"}

\* the first day of the call's search window
WindowStart(r) ==
  IF req[r].preferred_date # None THEN req[r].preferred_date ELSE today

\* C27: when preferredTime is set, the slot the allocator accepts, and the
\* row book then commits for it, has a time within 2 hours of preferredTime
\* and, when preferredDate is given, the date preferredDate
C27_AcceptedSlotMeetsPreference ==
  /\ [](\A r \in Req :
          (HoldsSlot(r) /\ req[r].preferred_time # None) =>
            /\ Abs(ParseHM(req[r].best_slot[1].time) - req[r].preferred_time)
                 <= PreferredWindow
            /\ (req[r].preferred_date # None =>
                  req[r].best_slot[1].date = req[r].preferred_date))
  /\ [][\A r \in Req :
          (req[r].pc = "b_insert" /\ req[r].preferred_time # None
             /\ Len(appointments') = Len(appointments) + 1) =>
            LET row == appointments'[Len(appointments')]
            IN  /\ Abs(row.appointment_time - req[r].preferred_time) <= PreferredWindow
                /\ (req[r].preferred_date # None =>
                      row.appointment_date = req[r].preferred_date)]_vars

\* C28: the search window is 14 days: the slot the allocator accepts has a
\* date d with start <= d <= start + 13, where start is preferredDate when
\* given and today otherwise
C28_AcceptedSlotInsideWindow ==
  \A r \in Req :
     HoldsSlot(r) =>
       /\ WindowStart(r) <= req[r].best_slot[1].date
       /\ req[r].best_slot[1].date <= WindowStart(r) + (SearchDays - 1)

\* the doctors the alternative slots of a result belong to
AlternativeDoctors(r) ==
  {req[r].available_slots[i].doctor_id : i \in 1..Len(req[r].available_slots)}

\* C29: the alternative slots of a NoAvailability result come from at most
\* the top 3 candidate doctors, with at most 3 slots per doctor and at most
\* 10 slots in total
C29_AlternativesBounded ==
  \A r \in Req :
     req[r].result = "no_availability" =>
       /\ Cardinality(AlternativeDoctors(r)) <= 3
       /\ Len(req[r].available_slots) <= 10
       /\ \A d \in AlternativeDoctors(r) :
             Cardinality({i \in 1..Len(req[r].available_slots) :
                            req[r].available_slots[i].doctor_id = d}) <= 3

RuleRow(doc, dow, st, en, active) ==
  [doctor_id |-> doc, day_of_week |-> dow, start_time |-> st, end_time |-> en,
   is_active |-> active]

\* a doctor_schedules table in which doctor 1 has, for Monday (1), an
\* inactive rule, then an active evening rule, then an active morning rule;
\* for Tuesday one active rule; for Friday an inactive rule only; for
\* Wednesday an empty interval; for Thursday a rule that starts at a quarter
\* past
OverlappingRules ==
  << RuleRow(1, 1, T(9, 0), T(10, 0), FALSE),
     RuleRow(1, 1, T(18, 0), T(19, 30), TRUE),
     RuleRow(1, 1, T(10, 0), T(11, 30), TRUE),
     RuleRow(1, 2, T(18, 0), T(20, 0), TRUE),
     RuleRow(1, 5, T(18, 0), T(20, 0), FALSE),
     RuleRow(1, 3, T(12, 0), T(12, 0), TRUE),
     RuleRow(1, 4, T(18, 15), T(19, 0), TRUE),
     RuleRow(2, 1, T(16, 0), T(17, 0), TRUE),
     RuleRow(3, 0, T(10, 0), T(11, 0), TRUE),
     RuleRow(3, 1, T(10, 0), T(11, 0), TRUE) >>

\* the demo rows, and the table above as loaded in either order
ScheduleTables == {Schedules, OverlappingRules, Reversed(OverlappingRules)}

\* appointment tables: none, or doctor 1 booked on Monday (day 0) at 18:30
\* and on Thursday (day 3) at 18:45
RuleAppointments ==
  { <<>>,
    [k \in 1..2 |->
       [(<< PoolRow(1, 0, T(18, 30), "scheduled"),
            PoolRow(1, 3, T(18, 45), "scheduled") >>)[k]
          EXCEPT !.id = k, !.serial_number = FormatSerial(k)]] }

InitRules ==
  /\ today \in 0..6
  /\ time_slots = {}
  /\ patients = <<[id |-> 1, name |-> "Test Patient", phone |-> "+8801999999999"]>>
  /\ appointments \in RuleAppointments
  /\ req = [r \in Req |-> IdleReq]
  /\ lock = [a \in Req |-> 0]
  /\ ops = 0
  /\ avail = <<>>
  /\ history = <<>>
  /\ symptom_mappings = SymptomMappings
  /\ analysis = <<>>
  /\ doctor_schedules \in ScheduleTables

SpecRules == InitRules /\ [][NextAvail]_vars

\* C31: the sequence getAvailability returns is strictly ascending by date
\* and then by time: of two consecutive slots the later one has a later
\* date, or the same date and a strictly later time
C31_SlotsStrictlyAscending ==
  \A k \in 1..Len(avail) : \A n \in 1..(Len(avail[k].slots) - 1) :
     LET s == avail[k].slots[n]
         t == avail[k].slots[n + 1]
     IN  \/ s.date < t.date
         \/ s.date = t.date /\ ParseHM(s.time) < ParseHM(t.time)

\* an answer with slots on two dates, two of them on one date, for a doctor
\* who has more than one active rule for a weekday of the range
C31_TwoDatesTwoTimes ==
  \E k \in 1..Len(avail) :
     LET a == avail[k]
     IN  /\ \E n, m \in 1..Len(a.slots) : a.slots[n].date # a.slots[m].date
         /\ \E n, m \in 1..Len(a.slots) :
               n # m /\ a.slots[n].date = a.slots[m].date
         /\ \E i, j \in 1..Len(doctor_schedules) :
               /\ i # j
               /\ doctor_schedules[i].doctor_id = a.doctor_id
               /\ doctor_schedules[j].doctor_id = a.doctor_id
               /\ doctor_schedules[i].is_active /\ doctor_schedules[j].is_active
               /\ doctor_schedules[i].day_of_week = doctor_schedules[j].day_of_week
               /\ \E n \in 1..Len(a.slots) :
                     (a.slots[n].date + 1) % 7 = doctor_schedules[i].day_of_week

\* the active rules of the table for the doctor and the weekday of date d
\* (day 0 is a Monday; the table counts Sunday as 0)
ActiveRulesOn(doctor_id, d) ==
  {i \in 1..Len(doctor_schedules) :
     /\ doctor_schedules[i].doctor_id = doctor_id
     /\ doctor_schedules[i].is_active
     /\ doctor_schedules[i].day_of_week = (d + 1) % 7}

\* the slot (doctor, d, hm) is neither booked nor blocked
FreeAt(doctor_id, d, hm) ==
  /\ ~\E j \in Rows :
        /\ appointments[j].status = "scheduled"
        /\ appointments[j].doctor_id = doctor_id
        /\ appointments[j].appointment_date = d
        /\ FormatHM(appointments[j].appointment_time) = hm
  /\ ~\E b \in time_slots :
        /\ b.is_blocked /\ b.doctor_id = doctor_id /\ b.slot_date = d
        /\ FormatHM(b.slot_time) = hm

\* C32: for each date getAvailability uses only the first active rule, in
\* definition order, whose weekday (0 = Sunday .. 6 = Saturday) is the date's
\* weekday: the times listed for the date are the free slots of that rule,
\* inactive rules and further active rules contribute none, and a date with
\* no matching active rule contributes none
C32_FirstActiveRuleOnly ==
  \A k \in 1..Len(avail) :
     LET a == avail[k]
     IN  a.found =>
           \A d \in DatesOf(a) :
              LET rules == ActiveRulesOn(a.doctor_id, d)
              IN  IF rules = {} THEN TimesOn(a, d) = <<>>
                  ELSE LET first == CHOOSE i \in rules : \A j \in rules : i <= j
                           times == HalfHours(doctor_schedules[first].start_time,
                                              doctor_schedules[first].end_time)
                       IN  TimesOn(a, d) =
                             SelectSeq(times, LAMBDA hm : FreeAt(a.doctor_id, d, hm))

\* an answer lists slots for a date whose weekday has an inactive rule
\* before, and a second active rule after, the rule the slots come from
C32_RuleBetweenOthers ==
  \E k \in 1..Len(avail) : \E d \in DatesOf(avail[k]) :
     LET a     == avail[k]
         rules == ActiveRulesOn(a.doctor_id, d)
     IN  /\ Cardinality(rules) >= 2
         /\ TimesOn(a, d) # <<>>
         /\ \E i \in 1..Len(doctor_schedules) :
               /\ doctor_schedules[i].doctor_id = a.doctor_id
               /\ ~doctor_schedules[i].is_active
               /\ doctor_schedules[i].day_of_week = (d + 1) % 7
               /\ \A j \in rules : i < j

(* ---------------------------- serial numbers -------------------------- *)

\* the numeric suffixes of the serials in the appointments table
Suffixes == {SerialSuffix(appointments[i].serial_number) : i \in Rows}

CandidateDoctors(r) == Take(RecommendedFor[req[r].symptoms], TopDoctors)

\* the free slot times of a doctor on date d, in time order
OfferedTimes(doctor_id, d) ==
  LET rules == ActiveRulesOn(doctor_id, d)
  IN  IF rules = {} THEN <<>>
      ELSE LET first == CHOOSE i \in rules : \A j \in rules : i <= j
           IN  SelectSeq(HalfHours(doctor_schedules[first].start_time,
                                   doctor_schedules[first].end_time),
                         LAMBDA hm : FreeAt(doctor_id, d, hm))

\* the ranks of the candidates of call r that have a free slot on date d
FreeRanksOn(r, d) ==
  {k \in 1..Len(CandidateDoctors(r)) : OfferedTimes(CandidateDoctors(r)[k].id, d) # <<>>}

\* the dates of the 14-day window of call r on which a candidate is free
FreeDates(r) ==
  {d \in WindowStart(r)..(WindowStart(r) + (SearchDays - 1)) : FreeRanksOn(r, d) # {}}

\* C33: when preferredTime is absent, the slot book is granted is on the
\* earliest date of the window on which any of the top-5 candidates has a
\* free slot; among the doctors free on that date it is the highest-ranked
\* one, at that doctor's earliest free time
C33_EarliestDateThenRank ==
  \A r \in Req :
     (HoldsSlot(r) /\ req[r].preferred_time = None) =>
       /\ FreeDates(r) # {}
       /\ LET d    == CHOOSE x \in FreeDates(r) : \A y \in FreeDates(r) : x <= y
              k    == CHOOSE x \in FreeRanksOn(r, d) : \A y \in FreeRanksOn(r, d) : x <= y
              slot == req[r].best_slot[1]
          IN  /\ slot.date = d
              /\ slot.doctor_id = CandidateDoctors(r)[k].id
              /\ slot.time = OfferedTimes(slot.doctor_id, d)[1]

(* --------------------------- no availability -------------------------- *)

\* a started call runs on: each store call of book_appointment returns
AllocateSteps ==
  \E r \in Req :
     Book_CreatePatient(r) \/ Book_Search(r) \/ Book_Serial(r) \/ Book_Insert(r)

SpecAllocateFair == InitAllocate /\ [][NextAllocate]_vars /\ WF_vars(AllocateSteps)

\* call r is about to search without a preferred time, for a text that is
\* not high-urgency
SearchesAnyTime(r) ==
  /\ req[r].pc = "b_search"
  /\ req[r].preferred_time = None
  /\ UrgencyFor[req[r].symptoms].urgency_level # "high"

\* C34: when preferredTime is absent and the text is not high-urgency, book
\* returns NoAvailability only if none of the top-5 candidate doctors has a
\* free slot in the 14-day window; whenever such a free slot exists the call
\* succeeds, and its success commits a scheduled appointment
C34_FreeSlotMeansSuccess ==
  /\ [][\A r \in Req :
          (SearchesAnyTime(r) /\ req'[r].result = "no_availability") =>
            FreeDates(r) = {}]_vars
  /\ [][\A r \in Req :
          (req[r].pc = "b_insert" /\ req'[r].result = "success") =>
            /\ Len(appointments') = Len(appointments) + 1
            /\ appointments'[Len(appointments')].status = "scheduled"
            /\ appointments'[Len(appointments')].patient_id = req[r].patient_id]_vars
  /\ \A r \in Req :
       (SearchesAnyTime(r) /\ FreeDates(r) # {}) ~> (req[r].result = "success")

\* a call without a preferred time, for which a lower-ranked candidate was
\* free, committed its appointment, and the next such call, whose only
\* candidate has no free slot in the window, returned NoAvailability
C34_BothOutcomes ==
  /\ \E r \in Req : req[r].result = "no_availability"
  /\ ops = 2
  /\ \E i \in Rows : /\ appointments[i].symptoms = "chest pain and flu"
                     /\ appointments[i].doctor_id = 3
                     /\ appointments[i].status = "scheduled"
  /\ \A d \in today..(today + (SearchDays - 1)) : OfferedTimes(1, d) = <<>>

(* ------------------------ cancelling frees the slot ------------------- *)

\* the store after two bookings of doctor 1's first two slots of the day
\* (InitCancel also starts after the first of them alone)
TwoBookings(now) ==
  << [id |-> 1, patient_id |-> 1, doctor_id |-> 1,
      appointment_date |-> now, appointment_time |-> T(18, 0),
      status |-> "scheduled", symptoms |-> "Chest pain", notes |-> <<>>,
      serial_number |-> FormatSerial(1), booking_channel |-> "web"],
     [id |-> 2, patient_id |-> 1, doctor_id |-> 1,
      appointment_date |-> now, appointment_time |-> T(18, 30),
      status |-> "scheduled", symptoms |-> "Chest pain", notes |-> <<>>,
      serial_number |-> FormatSerial(2), booking_channel |-> "web"] >>

InitCancel ==
  /\ today \in {0, 1}
  /\ time_slots = {}
  /\ patients = DemoPatients
  /\ appointments \in {TwoBookings(today), Take(TwoBookings(today), 1)}
  /\ req = [r \in Req |-> IdleReq]
  /\ lock = [a \in Req |-> 0]
  /\ ops = 0
  /\ avail = <<>>
  /\ history = <<>>
  /\ symptom_mappings = SymptomMappings
  /\ analysis = <<>>
  /\ doctor_schedules = Schedules

\* the times reschedules ask for: the day's first slot, and a quarter past
CancelNewTimes == {T(18, 0), T(18, 15)}

\* cancel, book, reschedule within the day, and availability queries
NextCancel ==
  \/ \E r \in Req, id \in IdChoices(appointments), reason \in Reasons :
       Cancel_Begin(r, id, reason)
  \/ \E r \in Req : Cancel_Commit(r)
  \/ \E r \in Req, name \in Names, phone \in Phones :
       Book_Begin(r, name, phone, "Chest pain", None, None)
  \/ \E r \in Req : Book_CreatePatient(r)
  \/ \E r \in Req : Book_Search(r)
  \/ \E r \in Req : Book_Serial(r)
  \/ \E r \in Req : Book_Insert(r)
  \/ \E r \in Req, id \in IdChoices(appointments), new_time \in CancelNewTimes :
       Resched_Begin(r, id, today, new_time)
  \/ \E r \in Req : Resched_Check(r)
  \/ \E r \in Req : Resched_Commit(r)
  \/ GetAvailability(1, None, 0)

SpecCancel == InitCancel /\ [][NextCancel]_vars

\* the slot (doctor, d, t) belongs to the doctor's rule for the weekday of d
InRule(doctor_id, d, t) ==
  LET rules == ActiveRulesOn(doctor_id, d)
  IN  /\ rules # {}
      /\ LET first == doctor_schedules[CHOOSE i \in rules : \A j \in rules : i <= j]
         IN  /\ first.start_time <= t
             /\ t < first.end_time
             /\ (t - first.start_time) % SlotStep = 0

\* a cancelled appointment held the slot, no scheduled appointment holds it
\* now, and it is not blocked
Freed(doctor_id, d, t) ==
  /\ \E i \in Rows : /\ appointments[i].status = "cancelled"
                     /\ appointments[i].doctor_id = doctor_id
                     /\ appointments[i].appointment_date = d
                     /\ appointments[i].appointment_time = t
  /\ FreeAt(doctor_id, d, FormatHM(t))

\* C36: cancelling frees the slot: once the scheduled appointment at
\* (doctor, date, time) is cancelled, getAvailability lists the slot again
\* when it lies in an active rule and is not blocked, a reschedule to it
\* passes its check, and a book whose search starts at it is granted it
C36_CancelledSlotIsOfferedAgain ==
  /\ [][avail' # avail =>
          \A d \in DatesOf(avail'[1]), t \in {T(18, 0), T(18, 30)} :
             (Freed(avail'[1].doctor_id, d, t) /\ InRule(avail'[1].doctor_id, d, t)) =>
               \E n \in 1..Len(avail'[1].slots) :
                  /\ avail'[1].slots[n].date = d
                  /\ avail'[1].slots[n].time = FormatHM(t)]_vars
  /\ [][\A r \in Req :
          (/\ req[r].pc = "r_check"
           /\ req'[r] # req[r]
           /\ Freed(req[r].loaded[1].doctor_id, req[r].new_date, req[r].new_time)) =>
            req'[r].pc = "r_commit"]_vars
  /\ [][\A r \in Req :
          (/\ req[r].pc = "b_search"
           /\ req'[r] # req[r]
           /\ Freed(CandidateDoctors(r)[1].id, today, T(18, 0))
           /\ InRule(CandidateDoctors(r)[1].id, today, T(18, 0))) =>
            /\ req'[r].pc = "b_serial"
            /\ req'[r].best_slot =
                 << [doctor_id |-> CandidateDoctors(r)[1].id, date |-> today,
                     time |-> FormatHM(T(18, 0))] >>]_vars

\* appointment 1 was cancelled, an availability answer read after that lists
\* its slot, and a later booking holds the slot as a scheduled appointment
C36_FreedSlotTakenAgain ==
  /\ Len(appointments) = 3
  /\ appointments[1].status = "cancelled"
  /\ appointments[3].status = "scheduled"
  /\ appointments[3].doctor_id = appointments[1].doctor_id
  /\ appointments[3].appointment_date = appointments[1].appointment_date
  /\ appointments[3].appointment_time = appointments[1].appointment_time
  /\ \E k \in 1..Len(avail) :
        /\ Len(avail[k].read) = 2
        /\ avail[k].read[1].status = "cancelled"
        /\ Lists(avail[k], 1)

(* --------------------- reschedule to the own slot --------------------- *)

\* the check of call r reads the appointment as scheduled at the very
\* (date, time) the call asks for
OwnSlotAsked(r) ==
  /\ req[r].pc = "r_check"
  /\ LET row == appointments[req[r].appointment_id]
     IN  /\ row.status = "scheduled"
         /\ row.appointment_date = req[r].new_date
         /\ row.appointment_time = req[r].new_time

\* C37: a reschedule of a scheduled appointment to its own current
\* (date, time) is rejected as slot-not-available, the appointment's own row
\* being the conflicting booking, and the appointment is left unchanged
C37_OwnSlotRejected ==
  [][\A r \in Req :
        (OwnSlotAsked(r) /\ req'[r] # req[r]) =>
          /\ req'[r].result = "conflict"
          /\ req'[r].pc = "idle"
          /\ appointments' = appointments]_vars

\* the only appointment of the store was asked to move to its own slot: the
\* call returned the conflict result and the row is as it was booked
C37_OnlyRowConflicts ==
  /\ Len(appointments) = 1
  /\ appointments = Take(TwoBookings(today), 1)
  /\ \E r \in Req : req[r].op = "reschedule" /\ req[r].result = "conflict"

(* ------------------------- overlapping appointments ------------------- *)

\* Appointment.duration_minutes (default 30), in seconds
duration_minutes == 1800

\* C38: after any sequence of book, cancel and reschedule, no two scheduled
\* appointments of the same doctor on the same date overlap in time: their
\* start times differ by at least the 30-minute appointment duration
C38_NoOverlap ==
  \A i \in Rows, j \in Rows :
     (/\ i # j
      /\ appointments[i].status = "scheduled"
      /\ appointments[j].status = "scheduled"
      /\ appointments[i].doctor_id = appointments[j].doctor_id
      /\ appointments[i].appointment_date = appointments[j].appointment_date) =>
       Abs(appointments[i].appointment_time - appointments[j].appointment_time)
         >= duration_minutes

(* --------------------------- book terminates -------------------------- *)

\* bookings that take each exit of book_appointment: a grant, no candidate,
\* the urgency return, and no slot near the preferred time
ExitInputs(now) ==
  { <<"Chest pain", None, None>>,
    <<"sore knee", None, None>>,
    <<"severe chest pain", None, None>>,
    <<"Chest pain", None, T(9, 0)>> }

\* bookings of concurrent requests, whose store calls can raise
NextBookLive ==
  \/ \E r \in Req, name \in Names, phone \in Phones, in \in ExitInputs(today) :
       Book_Begin(r, name, phone, in[1], in[2], in[3])
  \/ \E r \in Req : Book_CreatePatient(r)
  \/ \E r \in Req : Book_Search(r)
  \/ \E r \in Req : Book_Serial(r)
  \/ \E r \in Req : Book_Insert(r)
  \/ \E r \in Req : StoreFault(r)

\* a started call runs on: each of its store calls returns or raises
BookSteps ==
  \E r \in Req :
     Book_CreatePatient(r) \/ Book_Search(r) \/ Book_Serial(r) \/ Book_Insert(r)

\* the seeded store on a Monday
InitBookLive ==
  /\ today = 0
  /\ time_slots = BlockedDemo(0)
  /\ patients = DemoPatients
  /\ appointments = DemoAppointments(0)
  /\ req = [r \in Req |-> IdleReq]
  /\ lock = [a \in Req |-> 0]
  /\ ops = 0
  /\ avail = <<>>
  /\ history = <<>>
  /\ symptom_mappings = SymptomMappings
  /\ analysis = <<>>
  /\ doctor_schedules = Schedules

SpecBookLive == InitBookLive /\ [][NextBookLive]_vars /\ WF_vars(BookSteps)

\* the results a book call ends with
BookResults ==
  {"success", "no_candidate", "urgency_block", "no_availability", "store_error"}

\* some book call is in flight
BookInFlight == \E r \in Req : req[r].op = "book" /\ req[r].pc # "idle"

\* every call begun so far has returned with a result and no lock is held
AllReturned ==
  /\ \A r \in Req : req[r].pc = "idle" /\ (req[r].op = "book" => req[r].result \in BookResults)
  /\ \A a \in Req : lock[a] = 0

\* C39: every book call eventually returns a result, and on every exit
\* (success, NoCandidate, UrgencyBlock, NoAvailability, internal fault) the
\* engine's lock has been released: whenever a book call is in flight, a
\* state follows in which every call has returned and every lock is free;
\* each return leaves the call's lock free, and a lock is held only by a
\* call in flight on that engine
C39_BookReturnsAndReleases ==
  /\ BookInFlight ~> AllReturned
  /\ [][\A r \in Req :
          (req[r].pc # "idle" /\ req'[r].pc = "idle") =>
            /\ req'[r].result \in BookResults
            /\ lock'[AgentOf(r)] = 0]_vars
  /\ [](\A a \in Req :
          lock[a] # 0 => /\ req[lock[a]].pc # "idle"
                         /\ req[lock[a]].op = "book"
                         /\ AgentOf(lock[a]) = a)

\* two calls have returned, one through the except clause and one with
\* NoAvailability, and every lock is free
C39_FaultAndNoAvailabilityReturned ==
  /\ \E r \in Req, q \in Req :
        /\ req[r].pc = "idle" /\ req[r].result = "store_error"
        /\ req[q].pc = "idle" /\ req[q].result = "no_availability"
  /\ \A a \in Req : lock[a] = 0

====
